---------------------------- MODULE Spec2Model ----------------------------
(***************************************************************************)
(* A model of the data layer of basketStatTrends (src/data.js, second      *)
(* revision of the file, lines 274-905), of the handlers of src/app.js     *)
(* that drive it, and of the classifier of src/reference-stats.js.         *)
(*                                                                         *)
(* Representation.                                                         *)
(*  - A JavaScript string is a sequence of one-character strings, so that  *)
(*    trim, the quote regexes, endsWith, parseInt and Number can be        *)
(*    computed character by character.                                     *)
(*  - A JavaScript number is a decimal [k |-> "num", n, e] standing for    *)
(*    n / 10^e, normalised (no trailing zero in the fraction), so equal    *)
(*    numbers are equal records.  NaN is the record NaN.                   *)
(*  - null is Null, a {made, attempted} object is [k |-> "ma", ...] and a  *)
(*    string kept as a stat value is [k |-> "str", s |-> chars].           *)
(*  - A JavaScript object used as a map is a function whose DOMAIN is the  *)
(*    set of its keys.                                                     *)
(***************************************************************************)
EXTENDS Integers, Sequences, FiniteSets, TLC

VARIABLES
    games,          \* data.games: the stored games, a sequence
    players,        \* data.players: name -> [number, active]
    nextId,         \* the next id generateGameId hands out
    file,           \* the CSV file of the upload that produced this state, if any
    csvOut,         \* what parseCsv returned (or threw) for file
    cell,           \* a CSV cell handed to parseStatValue
    parsed,         \* what parseStatValue returned for cell
    boxScore,       \* a player record handed to hasValidStats and addComputedStats
    played,         \* what hasValidStats returned for boxScore
    computed,       \* what addComputedStats returned for boxScore
    recomputed,     \* what the last two of the recompute runs returned that
                    \* followed the last other operation on the store
    series,         \* r.stats[stat] of the records handed to calculateWindowedStats
    windowed,       \* a windowSize and what calculateWindowedStats returned for it
    referenceStats, \* referenceStats.stats: the benchmark table, key -> thresholds
    level,          \* a key, a value and what getPerformanceLevel returned for them
    playerRecords,  \* record.stats of the records handed to analyzePlayerPerformance
    insight,        \* a windowSize and what analyzePlayerPerformance returned for it
    advice          \* what generateRecommendation or generateAnalysisReport returned
                    \* (or threw) for the analysis of insight

vars == <<games, players, nextId, file, csvOut, cell, parsed, boxScore, played, computed,
          recomputed, series, windowed, referenceStats, level, playerRecords, insight,
          advice>>

storeVars == <<games, players, nextId>>

calcVars == <<boxScore, played, computed>>

viewVars == <<series, windowed, referenceStats, level, playerRecords, insight, advice>>

-----------------------------------------------------------------------------
(* Bounds of the model.                                                    *)

MaxCellLen == 4

MaxIds == 2

-----------------------------------------------------------------------------
(* Characters and strings.                                                 *)

Digits == <<"0", "1", "2", "3", "4", "5", "6", "7", "8", "9">>

IsDigit(c) == \E i \in 1..10 : Digits[i] = c

DigitVal(c) == (CHOOSE i \in 1..10 : Digits[i] = c) - 1

\* JavaScript white space, as far as the alphabets of this model go.
IsSpace(c) == c \in {" ", "\t"}

UpperChars == <<"A", "B", "C", "D", "E", "F", "G", "H", "I", "J", "K", "L", "M",
                "N", "O", "P", "Q", "R", "S", "T", "U", "V", "W", "X", "Y", "Z">>

LowerChars == <<"a", "b", "c", "d", "e", "f", "g", "h", "i", "j", "k", "l", "m",
                "n", "o", "p", "q", "r", "s", "t", "u", "v", "w", "x", "y", "z">>

LowerChar(c) ==
    IF \E i \in 1..26 : UpperChars[i] = c
    THEN LowerChars[CHOOSE i \in 1..26 : UpperChars[i] = c]
    ELSE c

\* String.prototype.toLowerCase
toLowerCase(s) == [i \in 1..Len(s) |-> LowerChar(s[i])]

SetMin(S) == CHOOSE x \in S : \A y \in S : x <= y
SetMax(S) == CHOOSE x \in S : \A y \in S : y <= x

\* String.prototype.trim
trim(s) ==
    LET keep == {i \in 1..Len(s) : ~IsSpace(s[i])}
    IN  IF keep = {} THEN <<>> ELSE SubSeq(s, SetMin(keep), SetMax(keep))

\* s.replace(/^q(.*)q$/, '$1') for a quote character q
StripQuotes(s, q) ==
    IF Len(s) >= 2 /\ s[1] = q /\ s[Len(s)] = q
    THEN SubSeq(s, 2, Len(s) - 1)
    ELSE s

\* s.replace(c, ""): the first occurrence of c is removed
RemoveFirst(s, c) ==
    LET at == {i \in 1..Len(s) : s[i] = c}
    IN  IF at = {} THEN s
        ELSE SubSeq(s, 1, SetMin(at) - 1) \o SubSeq(s, SetMin(at) + 1, Len(s))

endsWith(s, c) == Len(s) > 0 /\ s[Len(s)] = c

startsWith(s, c) == Len(s) > 0 /\ s[1] = c

AllDigits(s) == \A i \in 1..Len(s) : IsDigit(s[i])

RECURSIVE DigitsToInt(_)
DigitsToInt(s) ==
    IF s = <<>> THEN 0
    ELSE 10 * DigitsToInt(SubSeq(s, 1, Len(s) - 1)) + DigitVal(s[Len(s)])

RECURSIVE Pow10(_)
Pow10(e) == IF e = 0 THEN 1 ELSE 10 * Pow10(e - 1)

-----------------------------------------------------------------------------
(* Stat values.                                                            *)

Null == [k |-> "null"]
NaN  == [k |-> "nan"]

RECURSIVE Num(_, _)
Num(n, e) ==
    IF e > 0 /\ n % 10 = 0 THEN Num(n \div 10, e - 1)
    ELSE [k |-> "num", n |-> n, e |-> e]

IntV(n) == Num(n, 0)

MadeAttempted(m, a) == [k |-> "ma", made |-> m, attempted |-> a]

Str(s) == [k |-> "str", s |-> s]

\* Number(s) for a trimmed, non-empty string: an optional sign, then digits with
\* an optional fraction or a fraction alone; anything else is NaN.  (Exponents,
\* "Infinity" and the 0x/0o/0b forms need letters outside the model's alphabet.)
Number(s) ==
    LET signed == Len(s) > 0 /\ s[1] \in {"-", "+"}
        body   == IF signed THEN SubSeq(s, 2, Len(s)) ELSE s
        dots   == {i \in 1..Len(body) : body[i] = "."}
        dot    == IF dots = {} THEN Len(body) + 1 ELSE SetMin(dots)
        ip     == SubSeq(body, 1, dot - 1)
        fp     == SubSeq(body, dot + 1, Len(body))
        mag    == DigitsToInt(ip \o fp)
    IN  IF /\ Cardinality(dots) <= 1
           /\ AllDigits(ip) /\ AllDigits(fp)
           /\ Len(ip) + Len(fp) > 0
        THEN Num(IF signed /\ s[1] = "-" THEN 0 - mag ELSE mag, Len(fp))
        ELSE NaN

\* parseInt(s, 10): leading white space, an optional sign, then the longest run
\* of digits; NaN when that run is empty.  What follows the digits is ignored.
parseInt(s) ==
    LET nonsp  == {i \in 1..Len(s) : ~IsSpace(s[i])}
        t      == IF nonsp = {} THEN <<>> ELSE SubSeq(s, SetMin(nonsp), Len(s))
        signed == Len(t) > 0 /\ t[1] \in {"-", "+"}
        body   == IF signed THEN SubSeq(t, 2, Len(t)) ELSE t
        stop   == {i \in 1..Len(body) : ~IsDigit(body[i])}
        run    == IF stop = {} THEN body ELSE SubSeq(body, 1, SetMin(stop) - 1)
    IN  IF run = <<>> THEN NaN
        ELSE IntV(IF signed /\ t[1] = "-" THEN 0 - DigitsToInt(run) ELSE DigitsToInt(run))

\* /^\d+-\d+$/.test(s)
IsMadeAttemptedText(s) ==
    \E i \in 2..(Len(s) - 1) :
        /\ s[i] = "-"
        /\ AllDigits(SubSeq(s, 1, i - 1))
        /\ AllDigits(SubSeq(s, i + 1, Len(s)))

-----------------------------------------------------------------------------
(* The cell parsers of src/data.js.                                        *)

cleanCsvValue(value) ==
    trim(StripQuotes(StripQuotes(trim(value), "\""), "'"))

\* parseStatValue without the "-" placeholder rule
parseStatValueNoDash(value) ==
    LET trimmed == cleanCsvValue(value)
    IN  IF trimmed = <<>> THEN Null
        ELSE IF IsMadeAttemptedText(trimmed)
             THEN LET dash == CHOOSE i \in 1..Len(trimmed) : trimmed[i] = "-"
                  IN  MadeAttempted(DigitsToInt(SubSeq(trimmed, 1, dash - 1)),
                                    DigitsToInt(SubSeq(trimmed, dash + 1, Len(trimmed))))
        ELSE IF endsWith(trimmed, "%")
             THEN LET numValue == parseInt(RemoveFirst(trimmed, "%"))
                  IN  IF numValue = NaN THEN Null ELSE numValue
        ELSE LET numValue == Number(trimmed)
             IN  IF numValue = NaN THEN Str(trimmed) ELSE numValue

parseStatValue(value) ==
    LET trimmed == cleanCsvValue(value)
    IN  IF trimmed = <<"-">> \/ trimmed = <<>> THEN Null
        ELSE IF IsMadeAttemptedText(trimmed)
             THEN LET dash == CHOOSE i \in 1..Len(trimmed) : trimmed[i] = "-"
                  IN  MadeAttempted(DigitsToInt(SubSeq(trimmed, 1, dash - 1)),
                                    DigitsToInt(SubSeq(trimmed, dash + 1, Len(trimmed))))
        ELSE IF endsWith(trimmed, "%")
             THEN LET numValue == parseInt(RemoveFirst(trimmed, "%"))
                  IN  IF numValue = NaN THEN Null ELSE numValue
        ELSE LET numValue == Number(trimmed)
             IN  IF numValue = NaN THEN Str(trimmed) ELSE numValue


-----------------------------------------------------------------------------
(* JavaScript objects as maps, and the values a stat can hold.             *)

EmptyMap == [x \in {} |-> Null]

Put(f, key, v) == [x \in (DOMAIN f) \cup {key} |-> IF x = key THEN v ELSE f[x]]

Remove(f, keys) == [x \in (DOMAIN f) \ keys |-> f[x]]

Undefined == [k |-> "undefined"]

\* obj[key] / obj.key
Get(obj, key) == IF key \in DOMAIN obj THEN obj[key] ELSE Undefined

\* value > 0: ToNumber of an object or of a non-numeric string is NaN
GreaterThanZero(v) ==
    CASE v.k = "num" -> v.n > 0
      [] v.k = "str" -> LET x == Number(trim(v.s)) IN x # NaN /\ x.n > 0
      [] OTHER -> FALSE

\* truthiness of a jersey number: null and 0 are falsy
Truthy(v) == v.k = "num" /\ v.n # 0

K_player == <<"p", "l", "a", "y", "e", "r">>
K_min    == <<"m", "i", "n">>
K_pts    == <<"p", "t", "s">>
K_fg     == <<"f", "g">>
K_ft     == <<"f", "t">>
K_oreb   == <<"o", "r", "e", "b">>
K_dreb   == <<"d", "r", "e", "b">>
K_asst   == <<"a", "s", "s", "t">>
K_stl    == <<"s", "t", "l">>
K_blk    == <<"b", "l", "k">>
K_foul   == <<"f", "o", "u", "l">>
K_to     == <<"t", "o">>
K_pm     == <<"+", "/", "-">>
K_fgPct  == <<"f", "g", "%">>
K_3ptPct == <<"3", "p", "t", "%">>
K_ftPct  == <<"f", "t", "%">>
K_ato    == <<"a", "/", "t", "o">>
K_atk    == <<"a", "t", "k">>
K_def    == <<"d", "e", "f">>
K_shoot  == <<"s", "h", "o", "o", "t">>

ComputedKeys == {K_ato, K_atk, K_def, K_shoot}

-----------------------------------------------------------------------------
(* JavaScript numbers are IEEE 754 doubles.  A stat value [k |-> "num"] is   *)
(* named by its decimal text n / 10^e and stands for the double nearest to  *)
(* it, which is what Number() and a number literal yield.  Arithmetic is    *)
(* done on the doubles themselves: a finite double is [neg, m, x] with the  *)
(* value (-1)^neg * m * 2^x, where the natural number m is odd (or zero)    *)
(* and is written as a little-endian sequence of limbs in base 2^15.        *)
(* Every operation computes the exact result and rounds it to 53            *)
(* significant bits, ties to even.  Overflow, subnormals, NaN and -0 are    *)
(* outside the values the model reaches.                                    *)

Zero == IntV(0)

LimbBase == 2^15

RECURSIVE BigNorm(_)
BigNorm(a) ==
    IF a # <<>> /\ a[Len(a)] = 0 THEN BigNorm(SubSeq(a, 1, Len(a) - 1)) ELSE a

RECURSIVE BigFromInt(_)
BigFromInt(n) ==
    IF n = 0 THEN <<>> ELSE <<n % LimbBase>> \o BigFromInt(n \div LimbBase)

RECURSIVE BigToInt(_)
BigToInt(a) == IF a = <<>> THEN 0 ELSE a[1] + LimbBase * BigToInt(Tail(a))

RECURSIVE IntBitLen(_)
IntBitLen(n) == IF n = 0 THEN 0 ELSE 1 + IntBitLen(n \div 2)

BigBitLen(a) ==
    IF a = <<>> THEN 0 ELSE 15 * (Len(a) - 1) + IntBitLen(a[Len(a)])

\* a * c + carry for 0 <= c < 2^15
RECURSIVE BigMulSmall(_, _, _)
BigMulSmall(a, c, carry) ==
    IF a = <<>> THEN BigFromInt(carry)
    ELSE LET t == a[1] * c + carry
         IN  <<t % LimbBase>> \o BigMulSmall(Tail(a), c, t \div LimbBase)

\* a + b + carry
RECURSIVE BigAdd(_, _, _)
BigAdd(a, b, carry) ==
    IF a = <<>> /\ b = <<>> THEN BigFromInt(carry)
    ELSE LET t == (IF a = <<>> THEN 0 ELSE a[1]) + (IF b = <<>> THEN 0 ELSE b[1]) + carry
         IN  <<t % LimbBase>>
             \o BigAdd(IF a = <<>> THEN a ELSE Tail(a),
                       IF b = <<>> THEN b ELSE Tail(b), t \div LimbBase)

\* a - b - borrow for a >= b + borrow
RECURSIVE BigSubLimbs(_, _, _)
BigSubLimbs(a, b, borrow) ==
    IF a = <<>> THEN <<>>
    ELSE LET t == a[1] - (IF b = <<>> THEN 0 ELSE b[1]) - borrow
         IN  <<t % LimbBase>>
             \o BigSubLimbs(Tail(a), IF b = <<>> THEN b ELSE Tail(b),
                            IF t < 0 THEN 1 ELSE 0)

BigSub(a, b) == BigNorm(BigSubLimbs(a, b, 0))

RECURSIVE BigLess(_, _)
BigLess(a, b) ==
    IF Len(a) # Len(b) THEN Len(a) < Len(b)
    ELSE IF a = <<>> THEN FALSE
    ELSE IF a[Len(a)] # b[Len(b)] THEN a[Len(a)] < b[Len(b)]
    ELSE BigLess(SubSeq(a, 1, Len(a) - 1), SubSeq(b, 1, Len(b) - 1))

RECURSIVE BigMulLimbs(_, _)
BigMulLimbs(a, b) ==
    IF b = <<>> THEN <<>>
    ELSE BigAdd(BigMulSmall(a, b[1], 0), <<0>> \o BigMulLimbs(a, Tail(b)), 0)

BigMul(a, b) == BigNorm(BigMulLimbs(a, b))

\* a * 2^k
BigShl(a, k) ==
    IF a = <<>> THEN a
    ELSE [i \in 1..(k \div 15) |-> 0] \o BigMulSmall(a, 2^(k % 15), 0)

\* quotient and remainder of a by d for 0 < d < 2^15
RECURSIVE BigDivSmall(_, _)
BigDivSmall(a, d) ==
    IF a = <<>> THEN [q |-> <<>>, r |-> 0]
    ELSE LET hi == BigDivSmall(Tail(a), d)
             t  == hi.r * LimbBase + a[1]
         IN  [q |-> <<t \div d>> \o hi.q, r |-> t % d]

\* [q, exact]: floor(a / 2^k) and whether no bit was dropped
BigShr(a, k) ==
    LET limbs == IF k \div 15 > Len(a) THEN Len(a) ELSE k \div 15
        dv    == BigDivSmall(SubSeq(a, limbs + 1, Len(a)), 2^(k % 15))
    IN  [q     |-> BigNorm(dv.q),
         exact |-> dv.r = 0 /\ \A i \in 1..limbs : a[i] = 0]

DoubleZero == [neg |-> FALSE, m |-> <<>>, x |-> 0]

RECURSIVE TrailingZeros(_)
TrailingZeros(n) == IF n % 2 = 1 THEN 0 ELSE 1 + TrailingZeros(n \div 2)

\* the double (-1)^neg * m * 2^x in normal form, for m of at most 53 bits
RECURSIVE Double(_, _, _)
Double(neg, m, x) ==
    IF m = <<>> THEN DoubleZero
    ELSE IF m[1] = 0 THEN Double(neg, Tail(m), x + 15)
    ELSE LET tz == TrailingZeros(m[1])
         IN  [neg |-> neg, m |-> BigShr(m, tz).q, x |-> x + tz]

\* rounding, last step: m0 holds the 53 leading bits, guard is the next bit and
\* exact tells that no lower bit is set
RoundNearestEven(neg, m0, guard, exact, x) ==
    Double(neg,
           IF guard /\ (~exact \/ m0[1] % 2 = 1) THEN BigAdd(m0, <<1>>, 0) ELSE m0,
           x)

\* sh holds the 54 leading bits of the quotient
RoundLeadingBits(neg, sh, exact, x) ==
    RoundNearestEven(neg, BigShr(sh.q, 1).q, sh.q[1] % 2 = 1, sh.exact /\ exact, x + 1)

\* q is a quotient of at least 54 bits
RoundQuotient(neg, q, exact, x) ==
    RoundLeadingBits(neg, BigShr(q, BigBitLen(q) - 54), exact, x + BigBitLen(q) - 54)

RoundDivided(neg, dv, x) == RoundQuotient(neg, BigNorm(dv.q), dv.r = 0, x)

\* n is first scaled by 2^t so that the quotient has at least 55 bits
RoundScaled(neg, n, d, x, t) == RoundDivided(neg, BigDivSmall(BigShl(n, t), d), x - t)

\* the double nearest to (-1)^neg * (n / d) * 2^x for 0 < d < 2^15, ties to even
RoundToDouble(neg, n, d, x) ==
    IF n = <<>> THEN DoubleZero
    ELSE IF d = 1 /\ BigBitLen(n) <= 53 THEN Double(neg, n, x)
    ELSE IF 55 + IntBitLen(d) > BigBitLen(n)
         THEN RoundScaled(neg, n, d, x, 55 + IntBitLen(d) - BigBitLen(n))
         ELSE RoundScaled(neg, n, d, x, 0)

\* the double a number value stands for; it has at most four decimals
ToDouble(v) ==
    RoundToDouble(v.n < 0, BigFromInt(IF v.n < 0 THEN 0 - v.n ELSE v.n), Pow10(v.e), 0)

\* a * b
NumMul(a, b) == RoundToDouble(a.neg # b.neg, BigMul(a.m, b.m), 1, a.x + b.x)

\* a / b, for a divisor b # 0 whose odd part is below 2^15: a count, a number
\* of minutes, a length
NumDiv(a, b) ==
    CASE Len(b.m) = 1 -> RoundToDouble(a.neg # b.neg, a.m, b.m[1], a.x - b.x)

\* am * 2^x + bm * 2^x with the signs of a and b
AddAligned(aneg, am, bneg, bm, x) ==
    RoundToDouble(IF aneg # bneg /\ BigLess(am, bm) THEN bneg ELSE aneg,
                  IF aneg = bneg THEN BigAdd(am, bm, 0)
                  ELSE IF BigLess(am, bm) THEN BigSub(bm, am)
                  ELSE BigSub(am, bm),
                  1, x)

AddAt(a, b, x) == AddAligned(a.neg, BigShl(a.m, a.x - x), b.neg, BigShl(b.m, b.x - x), x)

\* a + b
NumAdd(a, b) == AddAt(a, b, IF a.x < b.x THEN a.x ELSE b.x)

\* a - b
NumSub(a, b) == NumAdd(a, [b EXCEPT !.neg = ~b.neg])

\* twice is floor(2 * |a|) and exact tells that it is 2 * |a|
RoundHalfUp(neg, twice, exact) ==
    IF ~neg THEN (twice \div 2) + (twice % 2)
    ELSE 0 - ((twice \div 2) + (IF exact THEN 0 ELSE twice % 2))

RoundShifted(neg, sh) == RoundHalfUp(neg, BigToInt(sh.q), sh.exact)

\* Math.round(a): the integer floor(a + 1/2), computed exactly
MathRound(a) ==
    IF a.x >= 0 THEN (IF a.neg THEN -1 ELSE 1) * BigToInt(BigShl(a.m, a.x))
    ELSE RoundShifted(a.neg, BigShr(a.m, (0 - a.x) - 1))

\* Math.round(a * 10^d) / 10^d: the quotient of the integer by 10^d is the
\* double nearest to the decimal, which is the value named Num(., d)
RoundToDecimals(a, d) == Num(MathRound(NumMul(a, ToDouble(IntV(Pow10(d))))), d)

\* typeof v === 'number' ? v : 0
NumberOrZero(v) == IF v.k = "num" THEN v ELSE Zero

\* (s && typeof s === 'object' && 'attempted' in s) ? (s.attempted || 0) : 0
AttemptedOrZero(v) == IF v.k = "ma" THEN IntV(v.attempted) ELSE Zero

-----------------------------------------------------------------------------
(* src/data.js: player cell, played predicate, derived stats.              *)

\* trimmed.match(/^#(\d+)\s+(.+)$/)
extractPlayerInfo(playerString) ==
    LET trimmed == cleanCsvValue(playerString)
        rest    == SubSeq(trimmed, 2, Len(trimmed))
        stop    == {i \in 1..Len(rest) : ~IsDigit(rest[i])}
        nd      == IF stop = {} THEN Len(rest) ELSE SetMin(stop) - 1
        after   == SubSeq(rest, nd + 2, Len(rest))
    IN  IF /\ startsWith(trimmed, "#")
           /\ nd >= 1
           /\ nd < Len(rest) /\ IsSpace(rest[nd + 1])
           /\ Len(after) >= 1
        THEN [number |-> IntV(DigitsToInt(SubSeq(rest, 1, nd))), name |-> trim(after)]
        ELSE [number |-> Null, name |-> trimmed]

OtherCountingKeys == {K_oreb, K_dreb, K_asst, K_stl, K_blk, K_foul, K_to}

\* hasValidStats with the +/- test narrowed to positive values
hasValidStatsPositiveOnly(stats) ==
    LET present    == {key \in DOMAIN stats : stats[key] # Null}
        hasMinutes == \E key \in present :
                          toLowerCase(key) = K_min /\ GreaterThanZero(stats[key])
        hasPoints  == \E key \in present :
                          toLowerCase(key) = K_pts /\ GreaterThanZero(stats[key])
        hasFgAttempts == \E key \in present :
                          /\ toLowerCase(key) = K_fg
                          /\ stats[key].k = "ma"
                          /\ stats[key].attempted > 0
        hasOtherStats ==
            \/ \E key \in present :
                  /\ toLowerCase(key) \in OtherCountingKeys
                  /\ stats[key].k = "num" /\ stats[key].n > 0
            \/ \E key \in present :
                  /\ toLowerCase(key) = K_pm
                  /\ stats[key].k = "num" /\ stats[key].n > 0
    IN  hasMinutes \/ hasPoints \/ hasFgAttempts \/ hasOtherStats

hasValidStats(stats) ==
    LET present    == {key \in DOMAIN stats : stats[key] # Null}
        hasMinutes == \E key \in present :
                          toLowerCase(key) = K_min /\ GreaterThanZero(stats[key])
        hasPoints  == \E key \in present :
                          toLowerCase(key) = K_pts /\ GreaterThanZero(stats[key])
        hasFgAttempts == \E key \in present :
                          /\ toLowerCase(key) = K_fg
                          /\ stats[key].k = "ma"
                          /\ stats[key].attempted > 0
        hasOtherStats ==
            \/ \E key \in present :
                  /\ toLowerCase(key) \in OtherCountingKeys
                  /\ stats[key].k = "num" /\ stats[key].n > 0
            \/ \E key \in present :
                  /\ toLowerCase(key) = K_pm
                  /\ stats[key].k = "num" /\ stats[key].n # 0
    IN  hasMinutes \/ hasPoints \/ hasFgAttempts \/ hasOtherStats

computeAstToRatio(stats) ==
    LET assists   == NumberOrZero(Get(stats, K_asst))
        turnovers == NumberOrZero(Get(stats, K_to))
    IN  IF assists = Zero /\ turnovers = Zero THEN Null
        ELSE IF turnovers = Zero THEN RoundToDecimals(ToDouble(assists), 2)
        ELSE RoundToDecimals(NumDiv(ToDouble(assists), ToDouble(turnovers)), 2)

computeAttackEnergy(stats) ==
    LET minutes  == NumberOrZero(Get(stats, K_min))
        fga      == ToDouble(AttemptedOrZero(Get(stats, K_fg)))
        fta      == ToDouble(AttemptedOrZero(Get(stats, K_ft)))
        assists  == ToDouble(NumberOrZero(Get(stats, K_asst)))
        oreb     == ToDouble(NumberOrZero(Get(stats, K_oreb)))
        rawTotal == NumAdd(NumAdd(NumAdd(fga, fta), assists), oreb)
    IN  IF minutes.n <= 0 THEN Null
        ELSE IF rawTotal = DoubleZero THEN Null
        ELSE RoundToDecimals(NumDiv(rawTotal, ToDouble(minutes)), 2)

getFoulMultiplier(fouls) ==
    IF fouls = IntV(3) THEN Num(125, 2)
    ELSE IF fouls = IntV(2) THEN IntV(1)
    ELSE IF fouls = IntV(4) THEN Num(85, 2)
    ELSE Num(7, 1)

computeDefenceDomination(stats) ==
    LET minutes    == NumberOrZero(Get(stats, K_min))
        blocks     == ToDouble(NumberOrZero(Get(stats, K_blk)))
        steals     == ToDouble(NumberOrZero(Get(stats, K_stl)))
        dreb       == ToDouble(NumberOrZero(Get(stats, K_dreb)))
        fouls      == NumberOrZero(Get(stats, K_foul))
        rawDefence == NumAdd(NumAdd(blocks, steals), dreb)
        multiplier == ToDouble(getFoulMultiplier(fouls))
        adjustedDefence == NumMul(rawDefence, multiplier)
    IN  IF minutes.n <= 0 THEN Null
        ELSE IF rawDefence = DoubleZero THEN Null
        ELSE RoundToDecimals(NumDiv(adjustedDefence, ToDouble(minutes)), 2)

\* xs.reduce((sum, p) => sum + p, 0)
RECURSIVE NumSum(_)
NumSum(xs) ==
    IF xs = <<>> THEN DoubleZero
    ELSE NumAdd(NumSum(SubSeq(xs, 1, Len(xs) - 1)), ToDouble(xs[Len(xs)]))

\* computeShootingStar with a percentage of 0 taken into the mean
computeShootingStarOfAll(stats) ==
    LET ok(key) == Get(stats, key).k = "num" /\ Get(stats, key).n >= 0
        percentages ==
            (IF ok(K_fgPct) THEN <<Get(stats, K_fgPct)>> ELSE <<>>)
            \o (IF ok(K_3ptPct) THEN <<Get(stats, K_3ptPct)>> ELSE <<>>)
            \o (IF ok(K_ftPct) THEN <<Get(stats, K_ftPct)>> ELSE <<>>)
        avg == NumDiv(NumSum(percentages), ToDouble(IntV(Len(percentages))))
    IN  IF Len(percentages) = 0 THEN Null
        ELSE RoundToDecimals(avg, 1)

computeShootingStar(stats) ==
    LET ok(key) == Get(stats, key).k = "num" /\ Get(stats, key).n > 0
        percentages ==
            (IF ok(K_fgPct) THEN <<Get(stats, K_fgPct)>> ELSE <<>>)
            \o (IF ok(K_3ptPct) THEN <<Get(stats, K_3ptPct)>> ELSE <<>>)
            \o (IF ok(K_ftPct) THEN <<Get(stats, K_ftPct)>> ELSE <<>>)
        avg == NumDiv(NumSum(percentages), ToDouble(IntV(Len(percentages))))
    IN  IF Len(percentages) = 0 THEN Null
        ELSE RoundToDecimals(avg, 1)

\* { ...stats, 'a/to': ..., 'atk': ..., 'def': ..., 'shoot': ... }
addComputedStats(stats) ==
    [key \in (DOMAIN stats) \cup ComputedKeys |->
        IF key = K_ato THEN computeAstToRatio(stats)
        ELSE IF key = K_atk THEN computeAttackEnergy(stats)
        ELSE IF key = K_def THEN computeDefenceDomination(stats)
        ELSE IF key = K_shoot THEN computeShootingStar(stats)
        ELSE stats[key]]

-----------------------------------------------------------------------------
(* src/reference-stats.js: the benchmark table and the classifier.         *)

\* a number that is the result of arithmetic is held as the double itself
IsDouble(v) == "m" \in DOMAIN v

AsDouble(v) == IF IsDouble(v) THEN v ELSE ToDouble(v)

\* a < b on doubles: the sign of the difference, which is zero only for a = b
DoubleLess(a, b) == \E d \in {NumSub(a, b)} : d.neg /\ d.m # <<>>

\* x <= y on numbers; two decimal texts are compared as written
NumLessEq(x, y) ==
    IF IsDouble(x) \/ IsDouble(y) THEN ~DoubleLess(AsDouble(y), AsDouble(x))
    ELSE x.n * Pow10(y.e) <= y.n * Pow10(x.e)

Benchmark(p25, p50, p75, p90, inverted) ==
    [p25 |-> p25, p50 |-> p50, p75 |-> p75, p90 |-> p90, invertedScale |-> inverted]

K_3pt == <<"3", "p", "t">>
K_reb == <<"r", "e", "b">>

\* the stats of the referenceStats literal: the table before anything is merged
\* into it (name, unit and description play no part in a classification)
Defaults ==
    LET table == <<
          <<K_pts,    Benchmark(IntV(4),  IntV(8),  IntV(14), IntV(20), FALSE)>>,
          <<K_fg,     Benchmark(IntV(1),  IntV(3),  IntV(5),  IntV(8),  FALSE)>>,
          <<K_fgPct,  Benchmark(IntV(30), IntV(38), IntV(45), IntV(52), FALSE)>>,
          <<K_3pt,    Benchmark(IntV(0),  IntV(1),  IntV(2),  IntV(3),  FALSE)>>,
          <<K_3ptPct, Benchmark(IntV(20), IntV(28), IntV(35), IntV(42), FALSE)>>,
          <<K_ft,     Benchmark(IntV(0),  IntV(1),  IntV(3),  IntV(5),  FALSE)>>,
          <<K_ftPct,  Benchmark(IntV(50), IntV(62), IntV(72), IntV(82), FALSE)>>,
          <<K_oreb,   Benchmark(IntV(0),  IntV(1),  IntV(2),  IntV(4),  FALSE)>>,
          <<K_dreb,   Benchmark(IntV(1),  IntV(2),  IntV(4),  IntV(6),  FALSE)>>,
          <<K_reb,    Benchmark(IntV(2),  IntV(4),  IntV(6),  IntV(9),  FALSE)>>,
          <<K_asst,   Benchmark(IntV(0),  IntV(1),  IntV(3),  IntV(5),  FALSE)>>,
          <<K_stl,    Benchmark(IntV(0),  IntV(1),  IntV(2),  IntV(4),  FALSE)>>,
          <<K_blk,    Benchmark(IntV(0),  IntV(0),  IntV(1),  IntV(2),  FALSE)>>,
          <<K_to,     Benchmark(IntV(4),  IntV(3),  IntV(2),  IntV(1),  TRUE)>>,
          <<K_foul,   Benchmark(IntV(4),  IntV(3),  IntV(2),  IntV(1),  TRUE)>>,
          <<K_ato,    Benchmark(Num(5, 1), IntV(1), Num(15, 1), Num(25, 1), FALSE)>> >>
    IN  [key \in {table[i][1] : i \in 1..Len(table)} |->
            table[CHOOSE i \in 1..Len(table) : table[i][1] = key][2]]

\* NumericValue with a made-attempted pair taken by its attempts
NumericValueOfAttempted(value) ==
    CASE value.k = "ma"  -> IntV(value.attempted)
      [] value.k = "num" -> value
      [] value.k = "str" -> IF trim(value.s) = <<>> THEN Zero ELSE Number(trim(value.s))
      [] OTHER -> NaN

\* typeof value === 'object' && 'made' in value ? value.made : Number(value)
NumericValue(value) ==
    CASE IsDouble(value) -> value
      [] value.k = "ma"  -> IntV(value.made)
      [] value.k = "num" -> value
      [] value.k = "str" -> IF trim(value.s) = <<>> THEN Zero ELSE Number(trim(value.s))
      [] OTHER -> NaN

getPerformanceLevel(statKey, value) ==
    IF toLowerCase(statKey) \notin DOMAIN referenceStats THEN "average"
    ELSE IF value = Null \/ value = Undefined THEN "average"
    ELSE IF NumericValue(value) = NaN THEN "average"
    ELSE LET stat     == referenceStats[toLowerCase(statKey)]
             numValue == NumericValue(value)
         IN  IF stat.invertedScale
             THEN IF NumLessEq(numValue, stat.p90) THEN "excellent"
                  ELSE IF NumLessEq(numValue, stat.p75) THEN "good"
                  ELSE IF NumLessEq(numValue, stat.p50) THEN "average"
                  ELSE IF NumLessEq(numValue, stat.p25) THEN "below"
                  ELSE "poor"
             ELSE IF NumLessEq(stat.p90, numValue) THEN "excellent"
                  ELSE IF NumLessEq(stat.p75, numValue) THEN "good"
                  ELSE IF NumLessEq(stat.p50, numValue) THEN "average"
                  ELSE IF NumLessEq(stat.p25, numValue) THEN "below"
                  ELSE "poor"

\* Object.assign(target, source) on records
Assign(target, source) ==
    [f \in (DOMAIN target) \cup (DOMAIN source) |->
        IF f \in DOMAIN source THEN source[f] ELSE target[f]]

\* updateReferenceStat: [stats |-> the table after the call, ret |-> its return]
updateReferenceStat(stats, statKey, updates) ==
    IF toLowerCase(statKey) \in DOMAIN stats
    THEN [stats |-> [stats EXCEPT ![toLowerCase(statKey)] = Assign(@, updates)],
          ret   |-> TRUE]
    ELSE [stats |-> stats, ret |-> FALSE]

\* statData.p25 || 0
FieldOr(statData, field, default) ==
    IF field \in DOMAIN statData /\ statData[field] # Zero THEN statData[field]
    ELSE default

\* addReferenceStat: [stats |-> the table after the call, ret |-> its return]
addReferenceStat(stats, statKey, statData) ==
    IF toLowerCase(statKey) \notin DOMAIN stats
    THEN [stats |-> Put(stats, toLowerCase(statKey),
                        Benchmark(FieldOr(statData, "p25", Zero),
                                  FieldOr(statData, "p50", Zero),
                                  FieldOr(statData, "p75", Zero),
                                  FieldOr(statData, "p90", Zero),
                                  "invertedScale" \in DOMAIN statData
                                      /\ statData.invertedScale)),
          ret   |-> TRUE]
    ELSE [stats |-> stats, ret |-> FALSE]

\* loadSavedStats for the parsed.stats of the saved item (an empty object when
\* nothing is saved): Object.assign into an entry of the table, a new entry
\* for any other key
loadSavedStats(stats, saved) ==
    [key \in (DOMAIN stats) \cup (DOMAIN saved) |->
        IF key \notin DOMAIN saved THEN stats[key]
        ELSE IF key \in DOMAIN stats THEN Assign(stats[key], saved[key])
        ELSE saved[key]]

-----------------------------------------------------------------------------
(* src/data.js: parseCsv.  A file is [name, lines]; lines is what           *)
(* text.trim().split(/\r?\n/) yields and each line is the sequence of cells *)
(* line.split(",") yields, so a line of n cells stands for the text with    *)
(* n - 1 commas.                                                            *)

Range(q) == {q[i] : i \in 1..Len(q)}

RECURSIVE Join(_, _)
Join(strs, sep) ==
    IF strs = <<>> THEN <<>>
    ELSE IF Len(strs) = 1 THEN strs[1]
    ELSE strs[1] \o sep \o Join(Tail(strs), sep)

CleanLine(line) == [i \in 1..Len(line) |-> cleanCsvValue(line[i])]

MissingPlayerColumn(headers) ==
    <<"CSV must include a 'player' column. Found: ">> \o Join(headers, <<",", " ">>)

\* the stats object parseCsv builds for one row
RowStats(headers, statHeaders, columns) ==
    [header \in Range(statHeaders) |->
        parseStatValue(columns[SetMin({i \in 1..Len(headers) : headers[i] = header})])]

\* the forEach keeping the first row of a name instead of the last
RECURSIVE ParseRowsFirstWins(_, _, _, _, _)
ParseRowsFirstWins(rows, headers, playerIndex, statHeaders, acc) ==
    IF rows = <<>> THEN acc
    ELSE LET columns == rows[1]
             info    == extractPlayerInfo(columns[playerIndex])
             stats   == RowStats(headers, statHeaders, columns)
             next    == IF hasValidStats(stats) /\ info.name \notin DOMAIN acc.performances
                        THEN [playersFound |-> Put(acc.playersFound, info.name,
                                                   [number |-> info.number, active |-> TRUE]),
                              performances |-> Put(acc.performances, info.name, stats)]
                        ELSE acc
         IN  ParseRowsFirstWins(Tail(rows), headers, playerIndex, statHeaders, next)

RECURSIVE ParseRows(_, _, _, _, _)
ParseRows(rows, headers, playerIndex, statHeaders, acc) ==
    IF rows = <<>> THEN acc
    ELSE LET columns == rows[1]
             info    == extractPlayerInfo(columns[playerIndex])
             stats   == RowStats(headers, statHeaders, columns)
             next    == IF hasValidStats(stats)
                        THEN [playersFound |-> Put(acc.playersFound, info.name,
                                                   [number |-> info.number, active |-> TRUE]),
                              performances |-> Put(acc.performances, info.name, stats)]
                        ELSE acc
         IN  ParseRows(Tail(rows), headers, playerIndex, statHeaders, next)

\* findIndex falling back to the first column
findPlayerIndexOrFirst(headers) ==
    LET at == {i \in 1..Len(headers) : toLowerCase(headers[i]) = K_player}
    IN  IF at = {} THEN 1 ELSE SetMin(at)

\* headers.findIndex(h => h.toLowerCase() === "player"), 1-based; 0 stands for -1
findPlayerIndex(headers) ==
    LET at == {i \in 1..Len(headers) : toLowerCase(headers[i]) = K_player}
    IN  IF at = {} THEN 0 ELSE SetMin(at)

\* headers.filter((_, index) => index !== playerIndex)
filterStatHeaders(headers, playerIndex) ==
    [i \in 1..(Len(headers) - 1) |-> IF i < playerIndex THEN headers[i] ELSE headers[i + 1]]

\* the row filters without the '#' filter
filterRowsBySizeOnly(rows, headers, playerIndex) ==
    SelectSeq(rows, LAMBDA row : Len(row) = Len(headers))

\* the two filters on the cleaned rows
filterRows(rows, headers, playerIndex) ==
    SelectSeq(SelectSeq(rows, LAMBDA row : Len(row) = Len(headers)),
              LAMBDA columns : startsWith(columns[playerIndex], "#"))

NoRows == [playersFound |-> EmptyMap, performances |-> EmptyMap]

parseCsv(f) ==
    LET headers == CleanLine(f.lines[1])
        rows    == [i \in 1..(Len(f.lines) - 1) |-> CleanLine(f.lines[i + 1])]
    IN  IF findPlayerIndex(headers) = 0
        THEN [ok |-> FALSE, error |-> MissingPlayerColumn(headers)]
        ELSE LET playerIndex == findPlayerIndex(headers)
                 statHeaders == filterStatHeaders(headers, playerIndex)
                 out == ParseRows(filterRows(rows, headers, playerIndex),
                                  headers, playerIndex, statHeaders, NoRows)
             IN  [ok |-> TRUE, statHeaders |-> statHeaders,
                  performances |-> out.performances, playersFound |-> out.playersFound]

-----------------------------------------------------------------------------
(* src/data.js: the stored collection and the calls that change it.        *)
(* data is [players, games]; every call loads it from localStorage and     *)
(* saves it back, and the variables games and players are what is stored.  *)

\* JSON.stringify writes NaN as null
JsonValue(v) == IF v = NaN THEN Null ELSE v

JsonStats(stats) == [key \in DOMAIN stats |-> JsonValue(stats[key])]

JsonGame(g) ==
    [g EXCEPT !.performances = [name \in DOMAIN g.performances |->
                                    JsonStats(g.performances[name])]]

\* saveData followed by the next call's loadData
saveData(data) ==
    [players |-> data.players,
     games   |-> [i \in 1..Len(data.games) |-> JsonGame(data.games[i])]]

\* new Date(date).getTime(), in days: a date is [y, m, d] and the count keeps
\* the calendar order
DateValue(date) == 372 * date.y + 31 * (date.m - 1) + date.d

\* Array.prototype.sort((a, b) => new Date(a.date) - new Date(b.date)): stable
InsertByDate(sorted, g) ==
    LET before == {i \in 1..Len(sorted) : DateValue(sorted[i].date) <= DateValue(g.date)}
        at     == IF before = {} THEN 0 ELSE SetMax(before)
    IN  SubSeq(sorted, 1, at) \o <<g>> \o SubSeq(sorted, at + 1, Len(sorted))

RECURSIVE SortGamesByDate(_)
SortGamesByDate(gs) ==
    IF gs = <<>> THEN <<>>
    ELSE InsertByDate(SortGamesByDate(SubSeq(gs, 1, Len(gs) - 1)), gs[Len(gs)])

\* { ...a, ...b }
Spread(a, b) ==
    [key \in (DOMAIN a) \cup (DOMAIN b) |-> IF key \in DOMAIN b THEN b[key] ELSE a[key]]

IndexOfGame(gs, gameId) ==
    LET at == {i \in 1..Len(gs) : gs[i].id = gameId}
    IN  IF at = {} THEN 0 ELSE SetMin(at)

\* the registry loop of addGame
RegisterPlayers(registry, playersFound) ==
    [name \in (DOMAIN registry) \cup (DOMAIN playersFound) |->
        IF name \notin DOMAIN playersFound THEN registry[name]
        ELSE IF name \notin DOMAIN registry THEN playersFound[name]
        ELSE IF Truthy(playersFound[name].number)
             THEN [registry[name] EXCEPT !.number = playersFound[name].number]
        ELSE registry[name]]

\* addGame without the sort after the push
addGameUnsorted(data, gameData, id) ==
    LET game == [id          |-> id,
                 date        |-> gameData.date,
                 opponent    |-> gameData.opponent,
                 league      |-> gameData.league,
                 homeAway    |-> gameData.homeAway,
                 performances |-> [name \in DOMAIN gameData.performances |->
                                      addComputedStats(gameData.performances[name])],
                 csvFile     |-> gameData.csvFile]
    IN  [data |-> saveData([players |-> RegisterPlayers(data.players, gameData.playersFound),
                            games   |-> Append(data.games, game)]),
         ret  |-> game]

addGame(data, gameData, id) ==
    LET game == [id          |-> id,
                 date        |-> gameData.date,
                 opponent    |-> gameData.opponent,
                 league      |-> gameData.league,
                 homeAway    |-> gameData.homeAway,
                 performances |-> [name \in DOMAIN gameData.performances |->
                                      addComputedStats(gameData.performances[name])],
                 csvFile     |-> gameData.csvFile]
    IN  [data |-> saveData([players |-> RegisterPlayers(data.players, gameData.playersFound),
                            games   |-> SortGamesByDate(Append(data.games, game))]),
         ret  |-> game]

\* updateGame writing the updates to the first stored game
updateGameFirst(data, gameId, updates) ==
    LET gameIndex == 1
        merged    == [data.games EXCEPT ![gameIndex] = Spread(data.games[gameIndex], updates)]
        sorted    == SortGamesByDate(merged)
    IN  [data |-> saveData([players |-> data.players, games |-> sorted]),
         ret  |-> sorted[gameIndex]]

\* updateGame for a gameId that is stored (the caller handles "Game not found")
updateGame(data, gameId, updates) ==
    LET gameIndex == IndexOfGame(data.games, gameId)
        merged    == [data.games EXCEPT ![gameIndex] = Spread(data.games[gameIndex], updates)]
        sorted    == SortGamesByDate(merged)
    IN  [data |-> saveData([players |-> data.players, games |-> sorted]),
         ret  |-> sorted[gameIndex]]

deleteGame(data, gameId) ==
    saveData([players |-> data.players,
              games   |-> SelectSeq(data.games, LAMBDA g : g.id # gameId)])

\* updatePlayerStats for a gameId that is stored
updatePlayerStats(data, gameId, playerName, stats) ==
    LET at == IndexOfGame(data.games, gameId)
        gs == [data.games EXCEPT ![at].performances = Put(@, playerName, stats)]
    IN  [data |-> saveData([players |-> data.players, games |-> gs]), ret |-> gs[at]]

\* cleanupData without the registry pass of lines 620-631: only the records are removed.
cleanupDataKeepRegistry(data) ==
    LET cleaned == [i \in 1..Len(data.games) |->
                      [data.games[i] EXCEPT !.performances =
                          Remove(@, {name \in DOMAIN @ : ~hasValidStats(@[name])})]]
    IN  [data |-> saveData([players |-> data.players, games |-> cleaned]),
         ret  |-> 0]

cleanupData(data) ==
    LET cleaned == [i \in 1..Len(data.games) |->
                      [data.games[i] EXCEPT !.performances =
                          Remove(@, {name \in DOMAIN @ : ~hasValidStats(@[name])})]]
        removedCount == LET RECURSIVE Count(_)
                            Count(i) == IF i = 0 THEN 0
                                        ELSE Count(i - 1)
                                             + Cardinality(DOMAIN data.games[i].performances)
                                             - Cardinality(DOMAIN cleaned[i].performances)
                        IN  Count(Len(data.games))
        playersWithGames == UNION {DOMAIN cleaned[i].performances : i \in 1..Len(cleaned)}
    IN  [data |-> saveData([players |-> Remove(data.players,
                                               (DOMAIN data.players) \ playersWithGames),
                            games   |-> cleaned]),
         ret  |-> removedCount]

\* the four derived values in the order in which both recomputations assign them
ComputedOrder == <<K_ato, K_atk, K_def, K_shoot>>

ComputedValue(key, stats) ==
    CASE key = K_ato   -> computeAstToRatio(stats)
      [] key = K_atk   -> computeAttackEnergy(stats)
      [] key = K_def   -> computeDefenceDomination(stats)
      [] key = K_shoot -> computeShootingStar(stats)

\* if (stats[key] !== value) { stats[key] = value; updated = true; }
SetIfChanged(stats, key, value) ==
    IF Get(stats, key) # value THEN Put(stats, key, value) ELSE stats

\* the body of the inner forEach of addComputedStatsToAllGames: each value is
\* computed from the record as the assignments before it left it
RECURSIVE WithComputed(_, _)
WithComputed(stats, keys) ==
    IF keys = <<>> THEN stats
    ELSE WithComputed(SetIfChanged(stats, Head(keys), ComputedValue(Head(keys), stats)),
                      Tail(keys))

\* data.games.forEach(game => Object.entries(game.performances || {}).forEach(...))
UpdatedGames(gs) ==
    [i \in 1..Len(gs) |->
        [gs[i] EXCEPT !.performances =
            [name \in DOMAIN @ |-> WithComputed(@[name], ComputedOrder)]]]

\* if (updated) { saveData(data); }  return updated;
SavedIfUpdated(data, gs) ==
    IF gs # data.games
    THEN [data |-> saveData([players |-> data.players, games |-> gs]), ret |-> TRUE]
    ELSE [data |-> data, ret |-> FALSE]

\* addComputedStatsToAllGames as it were to save and report an update always
addComputedStatsToAllGamesAlways(data) ==
    [data |-> saveData([players |-> data.players, games |-> UpdatedGames(data.games)]),
     ret  |-> TRUE]

addComputedStatsToAllGames(data) ==
    SavedIfUpdated(data, UpdatedGames(data.games))

\* stats['a/to'] = computeAstToRatio(stats); ... in the order of the code
RECURSIVE Recomputed(_, _)
Recomputed(stats, keys) ==
    IF keys = <<>> THEN stats
    ELSE Recomputed(Put(stats, Head(keys), ComputedValue(Head(keys), stats)), Tail(keys))

ForcedGames(gs) ==
    [i \in 1..Len(gs) |->
        [gs[i] EXCEPT !.performances =
            [name \in DOMAIN @ |-> Recomputed(@[name], ComputedOrder)]]]

RECURSIVE CountRecords(_)
CountRecords(gs) ==
    IF gs = <<>> THEN 0
    ELSE Cardinality(DOMAIN gs[1].performances) + CountRecords(Tail(gs))

forceRecomputeAllStats(data) ==
    [data |-> saveData([players |-> data.players, games |-> ForcedGames(data.games)]),
     ret  |-> CountRecords(data.games)]

-----------------------------------------------------------------------------
(* src/app.js: the windowed statistics of the scorecard.  The records are   *)
(* given by their r.stats[stat], in the order of the records.               *)

\* hasValidStatValue without the check of the attempts
hasValidStatValueNotNull(statValue) ==
    ~(statValue = Null \/ statValue = Undefined)

hasValidStatValue(statValue) ==
    IF statValue = Null \/ statValue = Undefined THEN FALSE
    ELSE IF statValue.k = "ma" THEN statValue.attempted > 0
    ELSE TRUE

getNumericStat(value) ==
    IF value = Null \/ value = Undefined THEN Zero
    ELSE IF value.k = "ma" THEN IntV(value.made)
    ELSE IF NumericValue(value) = NaN THEN Zero
    ELSE NumericValue(value)

\* Array.prototype.slice(start, end) for integers start and end
slice(a, start, end) ==
    LET rel(k) == IF k < 0 THEN (IF Len(a) + k < 0 THEN 0 ELSE Len(a) + k)
                  ELSE IF k > Len(a) THEN Len(a) ELSE k
    IN  SubSeq(a, rel(start) + 1, rel(end))

\* [...window].sort((a, b) => a - b)
RECURSIVE SortNumbers(_)
SortNumbers(xs) ==
    IF xs = <<>> THEN <<>>
    ELSE LET sorted == SortNumbers(SubSeq(xs, 1, Len(xs) - 1))
             x      == xs[Len(xs)]
             before == {i \in 1..Len(sorted) : NumLessEq(sorted[i], x)}
             at     == IF before = {} THEN 0 ELSE SetMax(before)
         IN  SubSeq(sorted, 1, at) \o <<x>> \o SubSeq(sorted, at + 1, Len(sorted))

\* the median of a sorted window that always takes the lower middle element
MedianOfLowerMiddle(sorted) ==
    ToDouble(sorted[(Len(sorted) + 1) \div 2])

\* sorted.length % 2 === 0 ? (sorted[length / 2 - 1] + sorted[length / 2]) / 2
\*                         : sorted[Math.floor(length / 2)]
Median(sorted) ==
    IF Len(sorted) % 2 = 0
    THEN NumDiv(NumAdd(ToDouble(sorted[Len(sorted) \div 2]),
                       ToDouble(sorted[Len(sorted) \div 2 + 1])),
                ToDouble(IntV(2)))
    ELSE ToDouble(sorted[Len(sorted) \div 2 + 1])

\* Math.max(...window), Math.min(...window)
MathMax(xs) == CHOOSE x \in Range(xs) : \A y \in Range(xs) : NumLessEq(y, x)
MathMin(xs) == CHOOSE x \in Range(xs) : \A y \in Range(xs) : NumLessEq(x, y)

\* the four statistics of a window that is not empty
WindowStats(window) ==
    [avg    |-> NumDiv(NumSum(window), ToDouble(IntV(Len(window)))),
     median |-> Median(SortNumbers(window)),
     max    |-> ToDouble(MathMax(window)),
     min    |-> ToDouble(MathMin(window))]

\* the return of calculateWindowedStats with a previous window of three or more
WithTrends(values, currentWindow, current, prev) ==
    [gamesInWindow |-> Len(currentWindow),
     totalGames    |-> Len(values),
     average       |-> current.avg,
     avgTrend      |-> NumSub(current.avg, prev.avg),
     median        |-> current.median,
     medianTrend   |-> NumSub(current.median, prev.median),
     max           |-> current.max,
     min           |-> current.min,
     varianceTrend |-> NumSub(NumSub(current.max, current.min),
                              NumSub(prev.max, prev.min)),
     hasPrevWindow |-> TRUE]

\* the return of calculateWindowedStats with the previous statistics left null
WithoutTrends(values, currentWindow, current) ==
    [gamesInWindow |-> Len(currentWindow),
     totalGames    |-> Len(values),
     average       |-> current.avg,
     avgTrend      |-> DoubleZero,
     median        |-> current.median,
     medianTrend   |-> DoubleZero,
     max           |-> current.max,
     min           |-> current.min,
     varianceTrend |-> DoubleZero,
     hasPrevWindow |-> FALSE]

\* if (prevWindow.length >= 3) { prevAvg = ...; } and the trends
WindowedResult(values, currentWindow, prevWindow, current) ==
    IF Len(prevWindow) >= 3
    THEN WithTrends(values, currentWindow, current, WindowStats(prevWindow))
    ELSE WithoutTrends(values, currentWindow, current)

WindowedOver(values, currentWindow, prevWindow) ==
    IF currentWindow = <<>> THEN Null
    ELSE WindowedResult(values, currentWindow, prevWindow, WindowStats(currentWindow))

WindowedValues(values, windowSize) ==
    IF values = <<>> THEN Null
    ELSE WindowedOver(values, slice(values, 0 - windowSize, Len(values)),
                      slice(values, 0 - windowSize * 2, 0 - windowSize))

NumericStats(validRecords) ==
    [i \in 1..Len(validRecords) |-> getNumericStat(validRecords[i])]

calculateWindowedStats(records, windowSize) ==
    WindowedValues(NumericStats(SelectSeq(records, hasValidStatValue)), windowSize)

-----------------------------------------------------------------------------
(* Values shared by the state machines.                                    *)

NotParsed == [k |-> "pending"]

NoFile == [name |-> "", lines |-> <<>>]

-----------------------------------------------------------------------------
(* The inputs of the store's state machine.                                *)

HeaderLower    == <<K_player, K_min, K_asst, K_to>>
HeaderNoPlayer == <<<<"n", "a", "m", "e">>, K_min, K_asst, K_to>>

RowAlex  == <<<<"#", "5", " ", "A">>, <<"2", "0">>, <<"4">>, <<"1">>>>
RowBench == <<<<"#", "7", " ", "B">>, <<"0">>, <<"0">>, <<"0">>>>
RowZero  == <<<<"#", "0", " ", "A">>, <<"1", "0">>, <<"2">>, <<"0">>>>
RowSam   == <<<<"#", "7", " ", "B">>, <<"5">>, <<"1">>, <<"2">>>>

CsvFiles ==
    { [name |-> "alex.csv",   lines |-> <<HeaderLower, RowAlex, RowBench>>],
      [name |-> "zero.csv",   lines |-> <<HeaderLower, RowZero, RowSam>>],
      [name |-> "broken.csv", lines |-> <<HeaderNoPlayer, RowAlex>>] }

\* parseCsv of each of these files, computed once
CsvParse == [f \in CsvFiles |-> parseCsv(f)]

\* what the date, opponent, league and homeAway fields of a form can hold; the
\* date input yields a calendar date
GameDetails ==
    { [date |-> [y |-> 2024, m |-> 2, d |-> 3], opponent |-> "Bears",
       league |-> "Cup", homeAway |-> "away"],
      [date |-> [y |-> 2023, m |-> 12, d |-> 30], opponent |-> "Lions",
       league |-> "U16", homeAway |-> "home"] }

NameA == <<"A">>

\* a record as an editor would hand it to updatePlayerStats: Alex's stored
\* record with assists and turnovers changed and the derived keys left as stored
StatsEdited ==
    LET stored == addComputedStats(Put(Put(Put(EmptyMap, K_min, IntV(20)),
                                           K_asst, IntV(4)), K_to, IntV(1)))
    IN  [stored EXCEPT ![K_asst] = IntV(6), ![K_to] = IntV(2)]

\* a record with nothing but zeros
StatsAllZero ==
    addComputedStats(Put(Put(Put(EmptyMap, K_min, IntV(0)), K_asst, IntV(0)), K_to, IntV(0)))

EditedStats == {StatsEdited, StatsAllZero}

-----------------------------------------------------------------------------
(* The store's state machine: the calls the handlers of src/app.js make    *)
(* (src/admin.js holds the same handlers) and the calls of src/data.js     *)
(* that no handler wraps.  A handler that returns before it reaches the    *)
(* data layer (a form field left empty, a declined confirm) is no step.    *)
(* The upload handler awaits between parseCsv and addGame; addGame loads   *)
(* the stored data when it is called, so the handler is one step.  file    *)
(* and csvOut hold the file and the parse result of the upload that made   *)
(* the step, and are NoFile and NotParsed after every other step.          *)

Data == [players |-> players, games |-> games]

NotComputed == [k |-> "not computed"]

Bool(b) == [k |-> "boolean", b |-> b]

\* no record has been handed to the stat functions
CalcIdle ==
    /\ boxScore = EmptyMap
    /\ played = NotComputed
    /\ computed = NotComputed

\* nothing has been handed to the scorecard's functions, nothing is saved for
\* the benchmark table
ViewIdle ==
    /\ series = <<>>
    /\ windowed = NotComputed
    /\ referenceStats = Defaults
    /\ level = NotComputed
    /\ playerRecords = <<>>
    /\ insight = NotComputed
    /\ advice = NotComputed

GameIds == 1..MaxIds

Init ==
    /\ games = <<>>
    /\ players = EmptyMap
    /\ nextId = 1
    /\ file = NoFile
    /\ csvOut = NotParsed
    /\ cell = <<>>
    /\ parsed = NotParsed
    /\ CalcIdle
    /\ ViewIdle
    /\ recomputed = <<>>

\* uploadForm submit: parseCsv, then addGame; an error of parseCsv ends it
Upload(f, details) ==
    \E csv \in {CsvParse[f]} :
        /\ file' = f
        /\ csvOut' = csv
        /\ IF ~csv.ok
           THEN UNCHANGED <<games, players, nextId>>
           ELSE /\ nextId <= MaxIds
                /\ \E out \in {addGame(Data,
                                        [date |-> details.date, opponent |-> details.opponent,
                                         league |-> details.league, homeAway |-> details.homeAway,
                                         performances |-> csv.performances,
                                         playersFound |-> csv.playersFound,
                                         csvFile |-> f.name],
                                        nextId)} :
                       /\ games' = out.data.games
                       /\ players' = out.data.players
                /\ nextId' = nextId + 1
        /\ UNCHANGED <<cell, parsed>>
        /\ UNCHANGED <<calcVars, viewVars>>
        /\ recomputed' = <<>>

\* editGameForm submit: updateGame with the four fields of the form
EditGame(gameId, updates) ==
    /\ IF IndexOfGame(games, gameId) = 0
       THEN UNCHANGED <<games, players>>
       ELSE \E out \in {updateGame(Data, gameId, updates)} :
                /\ games' = out.data.games
                /\ players' = out.data.players
    /\ file' = NoFile
    /\ csvOut' = NotParsed
    /\ UNCHANGED <<nextId, cell, parsed>>
    /\ UNCHANGED <<calcVars, viewVars>>
    /\ recomputed' = <<>>

\* window.deleteGame: the game is looked up, the user confirms, deleteGame
DeleteGame(gameId) ==
    /\ IndexOfGame(games, gameId) # 0
    /\ \E data \in {deleteGame(Data, gameId)} :
           /\ games' = data.games
           /\ players' = data.players
    /\ file' = NoFile
    /\ csvOut' = NotParsed
    /\ UNCHANGED <<nextId, cell, parsed>>
    /\ UNCHANGED <<calcVars, viewVars>>
    /\ recomputed' = <<>>

\* basketStatData.updatePlayerStats
UpdatePlayerStats(gameId, playerName, stats) ==
    /\ IF IndexOfGame(games, gameId) = 0
       THEN UNCHANGED <<games, players>>
       ELSE \E out \in {updatePlayerStats(Data, gameId, playerName, stats)} :
                /\ games' = out.data.games
                /\ players' = out.data.players
    /\ file' = NoFile
    /\ csvOut' = NotParsed
    /\ UNCHANGED <<nextId, cell, parsed>>
    /\ UNCHANGED <<calcVars, viewVars>>
    /\ recomputed' = <<>>

\* basketStatData.cleanupData, run when the page loads and by window.rebuildData
CleanupData ==
    /\ \E out \in {cleanupData(Data)} :
           /\ games' = out.data.games
           /\ players' = out.data.players
    /\ file' = NoFile
    /\ csvOut' = NotParsed
    /\ UNCHANGED <<nextId, cell, parsed>>
    /\ UNCHANGED <<calcVars, viewVars>>
    /\ recomputed' = <<>>

Next ==
    \/ \E f \in CsvFiles, details \in GameDetails : Upload(f, details)
    \/ \E gameId \in GameIds, updates \in GameDetails : EditGame(gameId, updates)
    \/ \E gameId \in GameIds : DeleteGame(gameId)
    \/ \E gameId \in GameIds, stats \in EditedStats : UpdatePlayerStats(gameId, NameA, stats)
    \/ CleanupData

Spec == Init /\ [][Next]_vars

-----------------------------------------------------------------------------
(* The cell parser as a state machine: a cell is drawn, then parsed.       *)

CellAlphabet == {"0", "1", "-", "%", ".", "a", " ", "\"", "'"}

Cells == UNION {[1..n -> CellAlphabet] : n \in 0..MaxCellLen}

InitParse ==
    /\ cell \in Cells
    /\ parsed = NotParsed
    /\ CalcIdle
    /\ ViewIdle
    /\ recomputed = <<>>
    /\ games = <<>>
    /\ players = EmptyMap
    /\ nextId = 1
    /\ file = NoFile
    /\ csvOut = NotParsed

ParseCell ==
    /\ parsed = NotParsed
    /\ parsed' = parseStatValue(cell)
    /\ UNCHANGED <<cell, file, csvOut, storeVars>>
    /\ UNCHANGED <<calcVars, viewVars>>
    /\ UNCHANGED recomputed

NextParse == ParseCell

SpecParse == InitParse /\ [][NextParse]_vars

-----------------------------------------------------------------------------
(* parseCsv as a state machine: a file is drawn, then parsed.              *)

MaxRows == 2

HeaderUpper == <<<<"P", "L", "A", "Y", "E", "R">>, <<"M", "I", "N">>,
                 <<"A", "S", "S", "T">>, <<"T", "O">>>>

\* a row with a cell too few, and a team-total row
RowShort  == <<<<"#", "9", " ", "C">>, <<"3">>, <<"1">>>>
RowTotals == <<<<"T">>, <<"4", "0">>, <<"9">>, <<"5">>>>

CsvHeaders == {HeaderLower, HeaderUpper, HeaderNoPlayer}

CsvRows == {RowAlex, RowBench, RowZero, RowSam, RowShort, RowTotals}

\* the example of the README: player,PTS,REB,AST / Jordan,28,6,4 / Sam,12,10,2
ReadmeFile ==
    [name  |-> "README.csv",
     lines |-> << <<K_player, <<"P", "T", "S">>, <<"R", "E", "B">>, <<"A", "S", "T">>>>,
                  <<<<"J", "o", "r", "d", "a", "n">>, <<"2", "8">>, <<"6">>, <<"4">>>>,
                  <<<<"S", "a", "m">>, <<"1", "2">>, <<"1", "0">>, <<"2">>>> >>]

CsvInputs ==
    {ReadmeFile} \cup
    { [name |-> "game.csv", lines |-> <<h>> \o rows] :
        h \in CsvHeaders, rows \in UNION {[1..n -> CsvRows] : n \in 0..MaxRows} }

InitCsv ==
    /\ file \in CsvInputs
    /\ csvOut = NotParsed
    /\ games = <<>>
    /\ players = EmptyMap
    /\ nextId = 1
    /\ cell = <<>>
    /\ parsed = NotParsed
    /\ CalcIdle
    /\ ViewIdle
    /\ recomputed = <<>>

ParseFile ==
    /\ csvOut = NotParsed
    /\ csvOut' = parseCsv(file)
    /\ UNCHANGED <<file, cell, parsed, storeVars>>
    /\ UNCHANGED <<calcVars, viewVars>>
    /\ UNCHANGED recomputed

\* the rest of the upload handler: addGame with the parsed file, on the empty store
AddParsedGame(details) ==
    /\ csvOut # NotParsed
    /\ csvOut.ok
    /\ games = <<>>
    /\ \E out \in {addGame(Data,
                            [date |-> details.date, opponent |-> details.opponent,
                             league |-> details.league, homeAway |-> details.homeAway,
                             performances |-> csvOut.performances,
                             playersFound |-> csvOut.playersFound,
                             csvFile |-> file.name],
                            nextId)} :
           /\ games' = out.data.games
           /\ players' = out.data.players
    /\ nextId' = nextId + 1
    /\ UNCHANGED <<file, csvOut, cell, parsed>>
    /\ UNCHANGED <<calcVars, viewVars>>
    /\ recomputed' = <<>>

NextCsv ==
    \/ ParseFile
    \/ \E details \in GameDetails : AddParsedGame(details)

SpecCsv == InitCsv /\ [][NextCsv]_vars

-----------------------------------------------------------------------------
(* The stat functions as a state machine: a player record is drawn, then    *)
(* hasValidStats and addComputedStats are applied to it.  The records are   *)
(* what parseCsv can store under a key: a number, a made-attempted pair,    *)
(* null, or text that is not a number.                                     *)

MaxMinutes == 40

MaxAssists == 23

MaxTurnovers == 40

TextDnp == Str(<<"d", "n", "p">>)

\* the records over the given keys, each key absent or holding one of its values
RECURSIVE RecordsOver(_, _)
RecordsOver(keys, values) ==
    IF keys = <<>> THEN {EmptyMap}
    ELSE LET rest == RecordsOver(Tail(keys), Tail(values))
         IN  rest \cup {Put(r, keys[1], v) : r \in rest, v \in values[1]}

PlayedKeys ==
    {K_min, K_pts, K_fg, K_pm, K_player, <<"M", "I", "N">>, <<"F", "g">>}
    \cup OtherCountingKeys

PlayedValues ==
    {Null, IntV(0), IntV(5), IntV(-3), Num(5, 1), TextDnp,
     MadeAttempted(0, 0), MadeAttempted(1, 2)}

\* the records of at most two keys
PlayedScores ==
    {EmptyMap}
    \cup {Put(Put(EmptyMap, k1, v1), k2, v2) :
              k1 \in PlayedKeys, v1 \in PlayedValues,
              k2 \in PlayedKeys, v2 \in PlayedValues}

Counts(max) == {IntV(n) : n \in 0..max}

AtoScores ==
    RecordsOver(<<K_asst, K_to>>,
                <<Counts(MaxAssists) \cup {Null, TextDnp},
                  Counts(MaxTurnovers) \cup {Null, MadeAttempted(1, 2)}>>)

AtkScores ==
    RecordsOver(<<K_min, K_fg, K_ft, K_asst, K_oreb>>,
                <<Counts(MaxMinutes) \cup {TextDnp},
                  {IntV(5), MadeAttempted(0, 0), MadeAttempted(2, 5), MadeAttempted(9, 19)},
                  {MadeAttempted(1, 2)},
                  {Null, IntV(0), IntV(2)},
                  {IntV(1), TextDnp}>>)

DefScores ==
    RecordsOver(<<K_min, K_blk, K_stl, K_dreb, K_foul>>,
                <<Counts(MaxMinutes) \cup {TextDnp},
                  {IntV(0), IntV(1)},
                  {Null, IntV(2)},
                  {TextDnp, IntV(3)},
                  Counts(5)>>)

ShootScores ==
    RecordsOver(<<K_fgPct, K_3ptPct, K_ftPct>>,
                <<{Null, IntV(0), IntV(45), IntV(50), IntV(100), Num(475, 1)},
                  {Null, IntV(0), IntV(33), IntV(40), TextDnp},
                  {IntV(0), IntV(75), IntV(100), IntV(-5), MadeAttempted(3, 4)}>>)

BoxScores == PlayedScores \cup AtoScores \cup AtkScores \cup DefScores \cup ShootScores

InitStats ==
    /\ boxScore \in BoxScores
    /\ played = NotComputed
    /\ computed = NotComputed
    /\ ViewIdle
    /\ recomputed = <<>>
    /\ games = <<>>
    /\ players = EmptyMap
    /\ nextId = 1
    /\ file = NoFile
    /\ csvOut = NotParsed
    /\ cell = <<>>
    /\ parsed = NotParsed

HasValidStats ==
    /\ played = NotComputed
    /\ played' = Bool(hasValidStats(boxScore))
    /\ UNCHANGED <<boxScore, computed, recomputed, cell, parsed, file, csvOut, storeVars>>
    /\ UNCHANGED viewVars

AddComputedStats ==
    /\ played # NotComputed
    /\ computed = NotComputed
    /\ computed' = addComputedStats(boxScore)
    /\ UNCHANGED <<boxScore, played, recomputed, cell, parsed, file, csvOut, storeVars>>
    /\ UNCHANGED viewVars

NextStats == HasValidStats \/ AddComputedStats

SpecStats == InitStats /\ [][NextStats]_vars

-----------------------------------------------------------------------------
(* The recompute runs as a state machine.  The store starts with games as   *)
(* earlier operations left them: records stored before the derived stats    *)
(* existed, records whose raw stats were edited since, records in step.     *)

RawAlex == Put(Put(Put(EmptyMap, K_min, IntV(20)), K_asst, IntV(4)), K_to, IntV(1))

RawShooter ==
    Put(Put(Put(Put(EmptyMap, K_min, IntV(40)), K_stl, IntV(2)), K_fgPct, IntV(47)),
        K_fg, MadeAttempted(9, 19))

StoredRecords == {RawAlex, StatsEdited, StatsAllZero, addComputedStats(RawShooter)}

NameB == <<"B">>

\* what a game can hold: each of the two players absent or with a stored record
StoredPerformances ==
    UNION {[names -> StoredRecords] : names \in SUBSET {NameA, NameB}}

StoredGame(id, details, performances) ==
    [id |-> id, date |-> details.date, opponent |-> details.opponent,
     league |-> details.league, homeAway |-> details.homeAway,
     performances |-> performances]

EarlyDetails ==
    CHOOSE d \in GameDetails : \A o \in GameDetails : DateValue(d.date) <= DateValue(o.date)

LateDetails == CHOOSE d \in GameDetails : d # EarlyDetails

\* no game, one game, or two games in the order of their dates
StoredGames ==
    {<<>>} \cup UNION {
        {<<StoredGame(1, EarlyDetails, p)>>}
        \cup {<<StoredGame(2, EarlyDetails, p), StoredGame(1, LateDetails, q)>> :
                  q \in {EmptyMap, Put(EmptyMap, NameA, RawAlex)}} :
        p \in StoredPerformances}

InitRecompute ==
    /\ games \in StoredGames
    /\ players = Put(Put(EmptyMap, NameA, [number |-> IntV(5), active |-> TRUE]),
                     NameB, [number |-> Null, active |-> TRUE])
    /\ nextId = Len(games) + 1
    /\ file = NoFile
    /\ csvOut = NotParsed
    /\ cell = <<>>
    /\ parsed = NotParsed
    /\ CalcIdle
    /\ ViewIdle
    /\ recomputed = <<>>

\* the returns of the last two runs
LastTwo(runs) == IF Len(runs) > 2 THEN Tail(runs) ELSE runs

\* basketStatData.addComputedStatsToAllGames
AddComputedStatsToAllGames ==
    /\ \E out \in {addComputedStatsToAllGames(Data)} :
           /\ games' = out.data.games
           /\ players' = out.data.players
           /\ recomputed' = LastTwo(Append(recomputed, [op |-> "add", updated |-> out.ret]))
    /\ UNCHANGED <<nextId, file, csvOut, cell, parsed>>
    /\ UNCHANGED <<calcVars, viewVars>>

\* basketStatData.forceRecomputeAllStats
ForceRecomputeAllStats ==
    /\ \E out \in {forceRecomputeAllStats(Data)} :
           /\ games' = out.data.games
           /\ players' = out.data.players
           /\ recomputed' = LastTwo(Append(recomputed, [op |-> "force", count |-> out.ret]))
    /\ UNCHANGED <<nextId, file, csvOut, cell, parsed>>
    /\ UNCHANGED <<calcVars, viewVars>>

NextRecompute ==
    \/ AddComputedStatsToAllGames
    \/ ForceRecomputeAllStats
    \/ \E gameId \in GameIds, stats \in EditedStats : UpdatePlayerStats(gameId, NameA, stats)

SpecRecompute == InitRecompute /\ [][NextRecompute]_vars

-----------------------------------------------------------------------------
(* The windowed statistics as a state machine: the records of a player are  *)
(* drawn, given by what they hold for the stat, then calculateWindowedStats *)
(* is applied to them with a window size.                                   *)

MaxSeries == 6

\* what a record can hold for a stat: nothing, a made-attempted pair without
\* and with attempts, a number
SeriesValues == {Null, MadeAttempted(0, 0), MadeAttempted(9, 10), IntV(4)}

RECURSIVE SeqsUpTo(_, _)
SeqsUpTo(values, len) ==
    IF len = 0 THEN {<<>>}
    ELSE SeqsUpTo(values, len - 1)
         \cup {Append(s, v) : s \in {q \in SeqsUpTo(values, len - 1) : Len(q) = len - 1},
                              v \in values}

WindowSizes == {2, 3}

InitWindow ==
    /\ series \in SeqsUpTo(SeriesValues, MaxSeries)
    /\ windowed = NotComputed
    /\ referenceStats = Defaults
    /\ level = NotComputed
    /\ playerRecords = <<>>
    /\ insight = NotComputed
    /\ advice = NotComputed
    /\ CalcIdle
    /\ recomputed = <<>>
    /\ games = <<>>
    /\ players = EmptyMap
    /\ nextId = 1
    /\ file = NoFile
    /\ csvOut = NotParsed
    /\ cell = <<>>
    /\ parsed = NotParsed

\* calculateWindowedStats(playerRecords, stat, windowSize)
CalculateWindowedStats(windowSize) ==
    /\ windowed = NotComputed
    /\ windowed' = [windowSize |-> windowSize,
                    stats      |-> calculateWindowedStats(series, windowSize)]
    /\ UNCHANGED <<series, referenceStats, level, recomputed, cell, parsed, file, csvOut,
                   storeVars, calcVars, playerRecords, insight, advice>>

NextWindow == \E windowSize \in WindowSizes : CalculateWindowedStats(windowSize)

SpecWindow == InitWindow /\ [][NextWindow]_vars

-----------------------------------------------------------------------------
(* The benchmark table as a state machine: the module is loaded, with or    *)
(* without a saved table, then the functions exported as                    *)
(* window.referenceStats are called.                                        *)

MaxValue == 6

\* parsed.stats of the saved item: nothing, or a threshold someone saved
SavedStats == {EmptyMap, Put(EmptyMap, K_asst, [p90 |-> IntV(4)])}

K_eff == <<"e", "f", "f">>

\* keys with an entry in either case, and two keys without an entry
StatKeys == {K_asst, <<"A", "S", "S", "T">>, K_to, K_min, K_eff}

EditedKeys == {K_asst, <<"T", "O">>, K_eff}

Updates == {[p90 |-> IntV(2)], [invertedScale |-> TRUE]}

StatData ==
    {[p25 |-> IntV(1), p50 |-> IntV(2), p75 |-> IntV(4), p90 |-> IntV(5)],
     [p90 |-> IntV(3), invertedScale |-> TRUE]}

ClassifiedValues ==
    {IntV(n) : n \in 0..MaxValue}
    \cup {Num(25, 1), MadeAttempted(9, 19), MadeAttempted(3, 14), Null, TextDnp}

InitReference ==
    /\ referenceStats \in {loadSavedStats(Defaults, saved) : saved \in SavedStats}
    /\ level = NotComputed
    /\ series = <<>>
    /\ windowed = NotComputed
    /\ playerRecords = <<>>
    /\ insight = NotComputed
    /\ advice = NotComputed
    /\ CalcIdle
    /\ recomputed = <<>>
    /\ games = <<>>
    /\ players = EmptyMap
    /\ nextId = 1
    /\ file = NoFile
    /\ csvOut = NotParsed
    /\ cell = <<>>
    /\ parsed = NotParsed

referenceFrame ==
    <<series, windowed, recomputed, cell, parsed, file, csvOut, storeVars, calcVars,
      playerRecords, insight, advice>>

\* window.referenceStats.getPerformanceLevel(stat, value)
GetPerformanceLevel(statKey, value) ==
    /\ level' = [statKey |-> statKey, value |-> value,
                 tier    |-> getPerformanceLevel(statKey, value)]
    /\ UNCHANGED referenceStats
    /\ UNCHANGED referenceFrame

\* window.referenceStats.updateReferenceStat(statKey, updates)
UpdateReferenceStat(statKey, updates) ==
    /\ referenceStats' = updateReferenceStat(referenceStats, statKey, updates).stats
    /\ UNCHANGED level
    /\ UNCHANGED referenceFrame

\* window.referenceStats.addReferenceStat(statKey, statData)
AddReferenceStat(statKey, statData) ==
    /\ referenceStats' = addReferenceStat(referenceStats, statKey, statData).stats
    /\ UNCHANGED level
    /\ UNCHANGED referenceFrame

NextReference ==
    \/ \E statKey \in StatKeys, value \in ClassifiedValues :
           GetPerformanceLevel(statKey, value)
    \/ \E statKey \in EditedKeys, updates \in Updates :
           UpdateReferenceStat(statKey, updates)
    \/ \E statKey \in EditedKeys, statData \in StatData :
           AddReferenceStat(statKey, statData)

SpecReference == InitReference /\ [][NextReference]_vars

-----------------------------------------------------------------------------
(* The analysis engine of src/app.js: analyzePlayerPerformance over the    *)
(* records of one player (a record is held by its stats map), then         *)
(* generateRecommendation and generateAnalysisReport over its result.      *)
(* The engine reads the benchmark table through getStatReference and       *)
(* getPerformanceLevel.  The entries' formatted texts (toFixed: change,    *)
(* changePercent, from, to, the streaks' avg, vsMedian) are left out: no   *)
(* list membership and no recommendation reads them.                       *)

HIDDEN_STATS == {K_min, K_pm}

STAT_ORDER == <<K_pts, K_fg, K_fgPct, K_3pt, K_3ptPct, K_ft, K_ftPct, K_oreb, K_dreb,
                K_asst, K_stl, K_blk, K_to, K_foul, K_ato>>

\* STAT_ORDER.indexOf(lower), 1-based; 0 stands for -1
IndexInStatOrder(lower) ==
    IF \E i \in 1..Len(STAT_ORDER) : STAT_ORDER[i] = lower
    THEN CHOOSE i \in 1..Len(STAT_ORDER) : STAT_ORDER[i] = lower
    ELSE 0

StatOrderIndex(stat) == IndexInStatOrder(toLowerCase(stat))

CharRank(c) ==
    IF \E i \in 1..26 : LowerChars[i] = LowerChar(c)
    THEN CHOOSE i \in 1..26 : LowerChars[i] = LowerChar(c)
    ELSE 0

\* a.localeCompare(b) < 0 for keys of letters: the alphabetical order
RECURSIVE LocaleLess(_, _)
LocaleLess(a, b) ==
    IF b = <<>> THEN FALSE
    ELSE IF a = <<>> THEN TRUE
    ELSE IF CharRank(a[1]) # CharRank(b[1]) THEN CharRank(a[1]) < CharRank(b[1])
    ELSE LocaleLess(Tail(a), Tail(b))

\* the comparator of the sort is negative for (a, b), whose indices in
\* STAT_ORDER are aIdx and bIdx
StatBefore(a, b, aIdx, bIdx) ==
    IF aIdx = 0 /\ bIdx = 0 THEN LocaleLess(a, b)
    ELSE IF aIdx = 0 THEN FALSE
    ELSE IF bIdx = 0 THEN TRUE
    ELSE aIdx < bIdx

RECURSIVE SortByIndex(_, _)
SortByIndex(keys, idx) ==
    IF keys = {} THEN <<>>
    ELSE LET first == CHOOSE a \in keys :
                          \A b \in keys : ~StatBefore(b, a, idx[b], idx[a])
         IN  <<first>> \o SortByIndex(keys \ {first}, idx)

SortStats(keys) == SortByIndex(keys, [stat \in keys |-> StatOrderIndex(stat)])

\* unique(records.flatMap(r => Object.keys(r.stats))).filter(not hidden).sort(...)
getAvailableStats(records) ==
    SortStats({stat \in UNION {DOMAIN records[i] : i \in 1..Len(records)} :
                  toLowerCase(stat) \notin HIDDEN_STATS})

\* referenceStats.stats[statKey.toLowerCase()] || null
getStatReference(statKey) ==
    IF toLowerCase(statKey) \in DOMAIN referenceStats
    THEN referenceStats[toLowerCase(statKey)]
    ELSE Null

\* refStat?.field
RefField(refStat, field) == IF refStat = Null THEN Undefined ELSE refStat[field]

\* refStat?.invertedScale || false
IsInverted(refStat) == IF refStat = Null THEN FALSE ELSE refStat.invertedScale

\* xs.reduce((a, b) => a + b, 0) / xs.length
Mean(xs) == NumDiv(NumSum(xs), ToDouble(IntV(Len(xs))))

\* the literal 0.2
TrendThreshold == ToDouble(Num(2, 1))

Negated(d) == IF d.m = <<>> THEN d ELSE [d EXCEPT !.neg = ~d.neg]

\* trendDirection with the bounds at zero instead of 0.2
trendDirectionOfSign(trendValue, isInverted) ==
    IF isInverted
    THEN IF DoubleLess(trendValue, DoubleZero) THEN "improving"
         ELSE IF DoubleLess(DoubleZero, trendValue) THEN "declining"
         ELSE "consistent"
    ELSE IF DoubleLess(DoubleZero, trendValue) THEN "improving"
         ELSE IF DoubleLess(trendValue, DoubleZero) THEN "declining"
         ELSE "consistent"

trendDirection(trendValue, isInverted) ==
    IF isInverted
    THEN IF DoubleLess(trendValue, Negated(TrendThreshold)) THEN "improving"
         ELSE IF DoubleLess(TrendThreshold, trendValue) THEN "declining"
         ELSE "consistent"
    ELSE IF DoubleLess(TrendThreshold, trendValue) THEN "improving"
         ELSE IF DoubleLess(trendValue, Negated(TrendThreshold)) THEN "declining"
         ELSE "consistent"

\* last3.every(v => level of v is one of levels)
EveryLevel(stat, last3, levels) ==
    \A i \in 1..Len(last3) : getPerformanceLevel(stat, last3[i]) \in levels

\* the streak test that looks at the last value only
streakOfLast(stat, recentValues) ==
    IF Len(recentValues) < 3 THEN "none"
    ELSE IF EveryLevel(stat, slice(recentValues, 0 - 1, Len(recentValues)),
                       {"excellent", "good"}) THEN "hot"
    ELSE IF EveryLevel(stat, slice(recentValues, 0 - 1, Len(recentValues)),
                       {"poor", "below"}) THEN "cold"
    ELSE "none"

\* if (recentValues.length >= 3) { last3AllGood ... else if last3AllPoor ... }
streakOf(stat, recentValues) ==
    IF Len(recentValues) < 3 THEN "none"
    ELSE IF EveryLevel(stat, slice(recentValues, 0 - 3, Len(recentValues)),
                       {"excellent", "good"}) THEN "hot"
    ELSE IF EveryLevel(stat, slice(recentValues, 0 - 3, Len(recentValues)),
                       {"poor", "below"}) THEN "cold"
    ELSE "none"

AppendIf(cond, list, entry) == IF cond THEN Append(list, entry) ELSE list

\* the pushes of one stat
Pushed(analysis, stat, recentAvg, perfLevel, direction, streak, refStat) ==
    [strengths  |-> AppendIf(perfLevel \in {"excellent", "good"}, analysis.strengths,
                             [stat |-> stat, avg |-> recentAvg, level |-> perfLevel,
                              refP50 |-> RefField(refStat, "p50"),
                              refP75 |-> RefField(refStat, "p75")]),
     weaknesses |-> AppendIf(perfLevel \in {"poor", "below"}, analysis.weaknesses,
                             [stat |-> stat, avg |-> recentAvg, level |-> perfLevel,
                              refP50 |-> RefField(refStat, "p50"),
                              refP25 |-> RefField(refStat, "p25")]),
     improving  |-> AppendIf(direction = "improving", analysis.improving, [stat |-> stat]),
     declining  |-> AppendIf(direction = "declining", analysis.declining, [stat |-> stat]),
     consistent |-> analysis.consistent,
     hotStreaks |-> AppendIf(streak = "hot", analysis.hotStreaks,
                             [stat |-> stat, games |-> 3]),
     coldStreaks |-> AppendIf(streak = "cold", analysis.coldStreaks,
                              [stat |-> stat, games |-> 3]),
     benchmarkComparisons |->
         AppendIf(refStat # Null, analysis.benchmarkComparisons,
                  [stat |-> stat, level |-> perfLevel,
                   p50 |-> RefField(refStat, "p50"), p75 |-> RefField(refStat, "p75"),
                   p90 |-> RefField(refStat, "p90")])]

\* from recentAvg and prevAvg on
AnalyzedAverages(analysis, stat, recentValues, recentAvg, prevAvg, refStat) ==
    Pushed(analysis, stat, recentAvg, getPerformanceLevel(stat, recentAvg),
           trendDirection(NumSub(recentAvg, prevAvg), IsInverted(refStat)),
           streakOf(stat, recentValues), refStat)

\* prevAvg = previousValues.length > 0 ? mean of previousValues : seasonAvg
AnalyzedWindows(analysis, stat, values, recentValues, previousValues) ==
    IF recentValues = <<>> THEN analysis
    ELSE AnalyzedAverages(analysis, stat, recentValues, Mean(recentValues),
                          Mean(IF Len(previousValues) > 0 THEN previousValues ELSE values),
                          getStatReference(stat))

\* the body of stats.forEach for the values of the stat's valid records
AnalyzedValues(analysis, stat, values, windowSize) ==
    IF Len(values) < 2 THEN analysis
    ELSE AnalyzedWindows(analysis, stat, values,
                         slice(values, 0 - windowSize, Len(values)),
                         slice(values, 0 - windowSize * 2, 0 - windowSize))

\* r.stats[stat] of every record
StatColumn(records, stat) == [i \in 1..Len(records) |-> Get(records[i], stat)]

RECURSIVE AnalyzedStats(_, _, _, _)
AnalyzedStats(analysis, records, stats, windowSize) ==
    IF stats = <<>> THEN analysis
    ELSE AnalyzedStats(
             AnalyzedValues(analysis, stats[1],
                            NumericStats(SelectSeq(StatColumn(records, stats[1]),
                                                   hasValidStatValue)),
                            windowSize),
             records, Tail(stats), windowSize)

InsufficientData == [summary |-> "Need at least 2 games for analysis", details |-> <<>>]

EmptyAnalysis ==
    [strengths |-> <<>>, weaknesses |-> <<>>, improving |-> <<>>, declining |-> <<>>,
     consistent |-> <<>>, hotStreaks |-> <<>>, coldStreaks |-> <<>>,
     benchmarkComparisons |-> <<>>]

analyzePlayerPerformance(records, windowSize) ==
    IF Len(records) < 2 THEN InsufficientData
    ELSE AnalyzedStats(EmptyAnalysis, records, getAvailableStats(records), windowSize)

\* names[stat.toLowerCase()] || stat
getStatDisplayName(stat) ==
    LET names == << <<K_pts, "Points">>, <<K_fg, "Field Goals">>, <<K_fgPct, "FG%">>,
                    <<K_3pt, "3-Pointers">>, <<K_3ptPct, "3PT%">>,
                    <<K_ft, "Free Throws">>, <<K_ftPct, "FT%">>,
                    <<K_oreb, "Off. Rebounds">>, <<K_dreb, "Def. Rebounds">>,
                    <<K_reb, "Rebounds">>, <<K_asst, "Assists">>, <<K_stl, "Steals">>,
                    <<K_blk, "Blocks">>, <<K_to, "Turnovers">>, <<K_foul, "Fouls">>,
                    <<K_ato, "Assist/TO Ratio">> >>
        at    == {i \in 1..Len(names) : names[i][1] = toLowerCase(stat)}
    IN  IF at = {} THEN [key |-> stat] ELSE [name |-> names[SetMin(at)][2]]

\* reading .length or .some of a list the analysis does not have
TypeError == [k |-> "TypeError"]

\* list.some(e => e.stat is one of keys)
SomeStat(list, keys) == \E i \in 1..Len(list) : list[i].stat \in keys

Recommendation(text) == [text |-> text]

\* the rules of generateRecommendation with the turnover rule moved behind the
\* free-throw rule
generateRecommendationFreeThrowsFirst(analysis) ==
    IF "coldStreaks" \notin DOMAIN analysis THEN TypeError
    ELSE IF SomeStat(analysis.coldStreaks, {K_fgPct, K_3ptPct})
    THEN Recommendation("Shooting is cold. Focus on high-percentage shots closer to the basket.")
    ELSE IF SomeStat(analysis.declining, {K_ato})
    THEN Recommendation("Assist-to-turnover ratio declining. Focus on smart decision-making with the ball.")
    ELSE IF SomeStat(analysis.weaknesses, {K_ftPct})
    THEN Recommendation("Free throw practice can add easy points. Aim for 10+ FTs daily.")
    ELSE IF SomeStat(analysis.declining, {K_to}) \/ SomeStat(analysis.weaknesses, {K_to})
    THEN Recommendation("Work on ball security. Look for safer passing lanes and avoid forcing plays.")
    ELSE IF SomeStat(analysis.weaknesses, {K_dreb})
    THEN Recommendation("Box out on defensive rebounds. Position yourself between opponent and basket.")
    ELSE IF Len(analysis.improving) >= 2 /\ Len(analysis.declining) = 0
    THEN Recommendation("Great progress! Maintain this momentum and keep pushing.")
    ELSE IF Len(analysis.hotStreaks) >= 2
    THEN Recommendation("Playing with confidence! Stay aggressive and trust your game.")
    ELSE IF Len(analysis.strengths) > 0 /\ Len(analysis.weaknesses) > 0
    THEN [text     |-> "Build on your ... strength while developing weaker areas.",
          strength |-> getStatDisplayName(analysis.strengths[1].stat)]
    ELSE Null

generateRecommendation(analysis) ==
    IF "coldStreaks" \notin DOMAIN analysis THEN TypeError
    ELSE IF SomeStat(analysis.coldStreaks, {K_fgPct, K_3ptPct})
    THEN Recommendation("Shooting is cold. Focus on high-percentage shots closer to the basket.")
    ELSE IF SomeStat(analysis.declining, {K_to}) \/ SomeStat(analysis.weaknesses, {K_to})
    THEN Recommendation("Work on ball security. Look for safer passing lanes and avoid forcing plays.")
    ELSE IF SomeStat(analysis.declining, {K_ato})
    THEN Recommendation("Assist-to-turnover ratio declining. Focus on smart decision-making with the ball.")
    ELSE IF SomeStat(analysis.weaknesses, {K_ftPct})
    THEN Recommendation("Free throw practice can add easy points. Aim for 10+ FTs daily.")
    ELSE IF SomeStat(analysis.weaknesses, {K_dreb})
    THEN Recommendation("Box out on defensive rebounds. Position yourself between opponent and basket.")
    ELSE IF Len(analysis.improving) >= 2 /\ Len(analysis.declining) = 0
    THEN Recommendation("Great progress! Maintain this momentum and keep pushing.")
    ELSE IF Len(analysis.hotStreaks) >= 2
    THEN Recommendation("Playing with confidence! Stay aggressive and trust your game.")
    ELSE IF Len(analysis.strengths) > 0 /\ Len(analysis.weaknesses) > 0
    THEN [text     |-> "Build on your ... strength while developing weaker areas.",
          strength |-> getStatDisplayName(analysis.strengths[1].stat)]
    ELSE Null

\* a section of the report over the first n entries of a list, if it has any
Section(label, list, n) ==
    IF list = <<>> THEN <<>>
    ELSE <<[label |-> label,
            stats |-> [i \in 1..(IF Len(list) < n THEN Len(list) ELSE n) |->
                          getStatDisplayName(list[i].stat)]]>>

\* the tip section, if the recommendation is not null
TipSection(recommendation) ==
    IF recommendation = Null THEN <<>>
    ELSE <<[label |-> "Tip", tip |-> recommendation]>>

NoSections ==
    <<[label |-> "Consistent performance across categories. Keep up the good work!"]>>

\* the sections of the report, in the order they are pushed
ReportSections(analysis) ==
    Section("Strengths", analysis.strengths, 3)
    \o Section("Focus areas", analysis.weaknesses, 2)
    \o Section("Improving", analysis.improving, 2)
    \o Section("Watch", analysis.declining, 2)
    \o Section("Hot streak", analysis.hotStreaks, Len(analysis.hotStreaks))
    \o Section("Cold streak", analysis.coldStreaks, Len(analysis.coldStreaks))
    \o TipSection(generateRecommendation(analysis))

OrNoSections(sections) ==
    [html |-> IF Len(sections) > 0 THEN sections ELSE NoSections]

\* generateAnalysisReport(playerName, analysis, windowSize); the two other
\* arguments are not read
generateAnalysisReport(analysis) ==
    IF "strengths" \notin DOMAIN analysis THEN TypeError
    ELSE OrNoSections(ReportSections(analysis))

-----------------------------------------------------------------------------
(* The analysis as a state machine: the records of a player are drawn,     *)
(* analysed for a window size, and the analysis is handed to               *)
(* generateRecommendation or generateAnalysisReport.                       *)

MaxGames == 6

\* a game with five assists and one turnover, a game with two assists and
\* five turnovers, and a game whose assists cell was text and which has no
\* turnovers cell
RecordGood == Put(Put(Put(EmptyMap, K_min, IntV(20)), K_asst, IntV(5)), K_to, IntV(1))
RecordMid  == Put(Put(EmptyMap, K_asst, IntV(2)), K_to, IntV(5))
RecordText == Put(Put(EmptyMap, K_asst, Str(<<"D", "N", "P">>)), K_min, Null)

PlayerRecordKinds == {RecordGood, RecordMid, RecordText}

InitInsight ==
    /\ playerRecords \in SeqsUpTo(PlayerRecordKinds, MaxGames)
    /\ insight = NotComputed
    /\ advice = NotComputed
    /\ series = <<>>
    /\ windowed = NotComputed
    /\ referenceStats = Defaults
    /\ level = NotComputed
    /\ CalcIdle
    /\ recomputed = <<>>
    /\ games = <<>>
    /\ players = EmptyMap
    /\ nextId = 1
    /\ file = NoFile
    /\ csvOut = NotParsed
    /\ cell = <<>>
    /\ parsed = NotParsed

insightFrame ==
    <<playerRecords, series, windowed, referenceStats, level, recomputed, cell, parsed,
      file, csvOut, storeVars, calcVars>>

\* analyzePlayerPerformance(playerRecords, windowSize)
AnalyzePlayerPerformance(windowSize) ==
    /\ insight = NotComputed
    /\ insight' = [windowSize |-> windowSize,
                   analysis   |-> analyzePlayerPerformance(playerRecords, windowSize)]
    /\ UNCHANGED advice
    /\ UNCHANGED insightFrame

\* generateRecommendation(analysis)
GenerateRecommendation ==
    /\ insight # NotComputed
    /\ advice = NotComputed
    /\ advice' = [of  |-> "generateRecommendation",
                  ret |-> generateRecommendation(insight.analysis)]
    /\ UNCHANGED insight
    /\ UNCHANGED insightFrame

\* generateAnalysisReport(playerName, analysis, windowSize)
GenerateAnalysisReport ==
    /\ insight # NotComputed
    /\ advice = NotComputed
    /\ advice' = [of  |-> "generateAnalysisReport",
                  ret |-> generateAnalysisReport(insight.analysis)]
    /\ UNCHANGED insight
    /\ UNCHANGED insightFrame

NextInsight ==
    \/ \E windowSize \in WindowSizes : AnalyzePlayerPerformance(windowSize)
    \/ GenerateRecommendation
    \/ GenerateAnalysisReport

SpecInsight == InitInsight /\ [][NextInsight]_vars

-----------------------------------------------------------------------------
(* generateRecommendation and generateAnalysisReport over drawn analyses:  *)
(* up to MaxListed of the stats the rules name (and one they do not), each *)
(* pushed with a level, a trend direction and a streak.                    *)

MaxListed == 2

RuleStats == {K_pts, K_fgPct, K_ftPct, K_dreb, K_to, K_ato}

Profiles ==
    [level     : {"good", "average", "below"},
     direction : {"improving", "consistent", "declining"},
     streak    : {"hot", "none", "cold"}]

RECURSIVE DrawnAnalysis(_, _, _)
DrawnAnalysis(stats, profile, analysis) ==
    IF stats = <<>> THEN analysis
    ELSE DrawnAnalysis(Tail(stats), profile,
                       Pushed(analysis, stats[1], DoubleZero, profile[stats[1]].level,
                              profile[stats[1]].direction, profile[stats[1]].streak,
                              Defaults[stats[1]]))

\* the sets of stats an analysis is drawn over
Listings == {listed \in SUBSET RuleStats : Cardinality(listed) <= MaxListed}

InitRecommend ==
    /\ playerRecords = <<>>
    /\ \E listed \in Listings : \E profile \in [listed -> Profiles] :
           insight = [windowSize |-> SetMax(WindowSizes),
                      analysis   |-> DrawnAnalysis(SortStats(listed), profile,
                                                   EmptyAnalysis)]
    /\ advice = NotComputed
    /\ series = <<>>
    /\ windowed = NotComputed
    /\ referenceStats = Defaults
    /\ level = NotComputed
    /\ CalcIdle
    /\ recomputed = <<>>
    /\ games = <<>>
    /\ players = EmptyMap
    /\ nextId = 1
    /\ file = NoFile
    /\ csvOut = NotParsed
    /\ cell = <<>>
    /\ parsed = NotParsed

NextRecommend ==
    \/ GenerateRecommendation
    \/ GenerateAnalysisReport

SpecRecommend == InitRecommend /\ [][NextRecommend]_vars

-----------------------------------------------------------------------------
(* The JSON import of src/app.js (src/admin.js holds the same handler): a  *)
(* backup file is read and, after the confirm dialog, replaces the store   *)
(* or is merged into it.  A file that fails the structure test of lines    *)
(* 1665-1667 reaches no call of the data layer and is no step.             *)

NameC == <<"C">>

\* the registry of a backup: a player the uploads also have, with another
\* number, and a player no upload has
ImportedPlayers ==
    Put(Put(EmptyMap, NameA, [number |-> IntV(9), active |-> TRUE]),
        NameC, [number |-> IntV(3), active |-> TRUE])

\* a game of a backup, as the store that wrote the backup held it
ImportedGame(id, details) ==
    [id |-> id, date |-> details.date, opponent |-> details.opponent,
     league |-> details.league, homeAway |-> details.homeAway,
     performances |-> Put(EmptyMap, NameC, StatsEdited),
     csvFile |-> "backup.csv"]

\* ids of a backup's games: 0 is an id this store never generated, 1 is the id
\* of its first upload
ImportedIds == {0, 1}

ImportedGames ==
    {<<>>}
    \cup {<<ImportedGame(id, details)>> : id \in ImportedIds, details \in GameDetails}
    \cup {<<ImportedGame(id, EarlyDetails), ImportedGame(0, LateDetails)>> : id \in ImportedIds}

ImportFiles == {[players |-> ImportedPlayers, games |-> gs] : gs \in ImportedGames}

\* `${game.date}-${game.opponent}`: dates have one length, so the strings are
\* equal exactly when the pairs are
GameKey(game) == <<game.date, game.opponent>>

\* what addGame reads of a stored game handed to it: the game has no
\* playersFound, so src/data.js:488 reads {}
AsGameData(game) ==
    [date |-> game.date, opponent |-> game.opponent, league |-> game.league,
     homeAway |-> game.homeAway, performances |-> game.performances,
     playersFound |-> EmptyMap, csvFile |-> game.csvFile]

\* data.games.forEach of the merge branch: stored is what addGame loads, id the
\* next id generateGameId gives
RECURSIVE MergeGames(_, _, _, _, _)
MergeGames(stored, fileGames, existingIds, existingKeys, id) ==
    IF fileGames = <<>> THEN [data |-> stored, nextId |-> id]
    ELSE IF /\ fileGames[1].id \notin existingIds
            /\ GameKey(fileGames[1]) \notin existingKeys
         THEN MergeGames(addGame(stored, AsGameData(fileGames[1]), id).data,
                         Tail(fileGames), existingIds, existingKeys, id + 1)
         ELSE MergeGames(stored, Tail(fileGames), existingIds, existingKeys, id)

\* the "Merge players" loop: it writes to existingData, the copy loaded at
\* line 1670
MergePlayers(existingPlayers, importedPlayers) ==
    [name \in (DOMAIN existingPlayers) \cup (DOMAIN importedPlayers) |->
        IF name \in DOMAIN existingPlayers THEN existingPlayers[name]
        ELSE importedPlayers[name]]

\* the merge branch: the games are added one by one, the players are merged
\* into existingData, and what is saved is loadData() of that moment
importMerge(existingData, data, id) ==
    LET merged == MergeGames(existingData, data.games,
                             {existingData.games[i].id : i \in 1..Len(existingData.games)},
                             {GameKey(existingData.games[i]) : i \in 1..Len(existingData.games)},
                             id)
    IN  [data         |-> saveData(merged.data),
         existingData |-> [existingData EXCEPT
                              !.players = MergePlayers(@, data.players)],
         nextId       |-> merged.nextId]

\* the replace branch; generateGameId never repeats an id, so the next id is
\* above the ids of the file
importReplace(data, id) ==
    [data   |-> saveData(data),
     nextId |-> SetMax({id} \cup {data.games[i].id + 1 : i \in 1..Len(data.games)})]

InitImport == Init

\* importDataInput change: replace is the answer to the confirm dialog, asked
\* only when games are stored
ImportData(data, replace) ==
    /\ nextId <= MaxIds
    /\ \E out \in {IF Len(games) = 0 \/ replace
                    THEN importReplace(data, nextId)
                    ELSE importMerge(Data, data, nextId)} :
           /\ games' = out.data.games
           /\ players' = out.data.players
           /\ nextId' = out.nextId
    /\ file' = NoFile
    /\ csvOut' = NotParsed
    /\ UNCHANGED <<cell, parsed>>
    /\ UNCHANGED <<calcVars, viewVars>>
    /\ recomputed' = <<>>

NextImport ==
    \/ \E f \in CsvFiles, details \in GameDetails : Upload(f, details)
    \/ \E data \in ImportFiles, replace \in BOOLEAN : ImportData(data, replace)

SpecImport == InitImport /\ [][NextImport]_vars

-----------------------------------------------------------------------------
(* Claims.                                                                 *)

\* C1: in every reachable state of the store, every player record of every
\* stored game satisfies the played predicate hasValidStats.
C1_StoredRecordsPlayed ==
    \A i \in 1..Len(games) :
        \A name \in DOMAIN games[i].performances :
            hasValidStats(games[i].performances[name])

\* C2: the stored games are in ascending date order: no stored game is dated
\* later than the game stored right after it.
C2_GamesSortedByDate ==
    \A i \in 1..(Len(games) - 1) :
        DateValue(games[i].date) <= DateValue(games[i + 1].date)

\* the game uploaded second is dated earlier and is stored first
C2_Witness ==
    /\ Len(games) = 2
    /\ games[1].id = 2
    /\ games[2].id = 1
    /\ DateValue(games[1].date) < DateValue(games[2].date)

\* C3: each stored record's a/to, atk, def and shoot are the four derivations
\* of that record's own raw stats.
C3_DerivedStatsMatchRaw ==
    \A i \in 1..Len(games) :
        \A name \in DOMAIN games[i].performances :
            LET record == games[i].performances[name]
            IN  /\ Get(record, K_ato)   = computeAstToRatio(record)
                /\ Get(record, K_atk)   = computeAttackEnergy(record)
                /\ Get(record, K_def)   = computeDefenceDomination(record)
                /\ Get(record, K_shoot) = computeShootingStar(record)

\* C4: an upload that stores a game (nextId advances) leaves, for every name of
\* the file's playersFound: a registered name with the observed number when
\* that number is not null (0 included) and with its old number when it is
\* null; a new name registered with the observed number and active = true.
C4_RegistryNumberRefresh ==
    [][\A f \in CsvFiles :
          (file' = f /\ nextId' = nextId + 1) =>
              \A name \in DOMAIN CsvParse[f].playersFound :
                  LET info == CsvParse[f].playersFound[name]
                  IN  IF name \in DOMAIN players
                      THEN players'[name].number =
                               (IF info.number # Null THEN info.number
                                ELSE players[name].number)
                      ELSE players'[name] = [number |-> info.number, active |-> TRUE]
      ]_vars

\* C5: an edit of a stored game changes nothing but that game's date, opponent,
\* league and homeAway and its position: its other fields, the other games and
\* their order, and the registry are as before.
C5_EditGameFrame ==
    [][\A gameId \in GameIds, updates \in GameDetails :
          (/\ IndexOfGame(games, gameId) # 0
           /\ file' = NoFile
           /\ Len(games') = Len(games)
           /\ \E i \in 1..Len(games') :
                  games'[i].id = gameId /\ games'[i].date = updates.date
           /\ EditGame(gameId, updates)) =>
              /\ IndexOfGame(games', gameId) # 0
              /\ LET before == games[IndexOfGame(games, gameId)]
                     after  == games'[IndexOfGame(games', gameId)]
                 IN  [after EXCEPT !.date = before.date, !.opponent = before.opponent,
                                   !.league = before.league, !.homeAway = before.homeAway]
                         = before
              /\ SelectSeq(games', LAMBDA g : g.id # gameId)
                     = SelectSeq(games, LAMBDA g : g.id # gameId)
              /\ players' = players
      ]_vars

\* two games of one date with the later upload first: the order of an edit that
\* moved the first upload's date onto the second's
C5_Witness ==
    /\ Len(games) = 2
    /\ games[1].id = 2
    /\ games[2].id = 1
    /\ games[1].date = games[2].date

C6_Contains(s, sub) ==
    \E i \in 0..(Len(s) - Len(sub)) : SubSeq(s, i + 1, i + Len(sub)) = sub

\* C6: the upload of a file none of whose cleaned headers is "player" in any
\* letter case ends in an error whose message holds every cleaned header, and
\* leaves the stored games and the registry as they were.
C6_MissingPlayerColumnAborts ==
    [][\A f \in CsvFiles :
          (/\ file' = f
           /\ \A i \in 1..Len(f.lines[1]) :
                  toLowerCase(cleanCsvValue(f.lines[1][i])) # K_player) =>
              /\ ~csvOut'.ok
              /\ \A i \in 1..Len(f.lines[1]) :
                     C6_Contains(csvOut'.error, cleanCsvValue(f.lines[1][i]))
              /\ games' = games
              /\ players' = players
      ]_vars

\* a failed upload on a store that holds a game
C6_Witness ==
    /\ csvOut # NotParsed
    /\ ~csvOut.ok
    /\ \A i \in 1..Len(file.lines[1]) : toLowerCase(cleanCsvValue(file.lines[1][i])) # K_player
    /\ Len(games) > 0

C7_KeptLines(keep) ==
    LET at == {1} \cup {i + 1 : i \in keep}
    IN  [k \in 1..Cardinality(at) |->
            file.lines[CHOOSE j \in at : Cardinality({m \in at : m <= j}) = k]]

C8_ReadmeFormat(f) ==
    LET headers  == CleanLine(f.lines[1])
        playerAt == {i \in 1..Len(headers) : toLowerCase(headers[i]) = K_player}
        rows     == [i \in 1..(Len(f.lines) - 1) |-> CleanLine(f.lines[i + 1])]
    IN  /\ playerAt # {}
        /\ Len(rows) > 0
        /\ \A i \in 1..Len(rows) :
               /\ Len(rows[i]) = Len(headers)
               /\ rows[i][SetMin(playerAt)] # <<>>
               /\ ~startsWith(rows[i][SetMin(playerAt)], "#")
        /\ \A i, j \in 1..Len(rows) :
               rows[i][SetMin(playerAt)] = rows[j][SetMin(playerAt)] => i = j

\* C8: a file in the README's format is ingested with one performance record
\* per data row, keyed by the row's player name and holding the row's stats.
C8_ReadmeFormatIngested ==
    (csvOut # NotParsed /\ C8_ReadmeFormat(file)) =>
        LET headers     == CleanLine(file.lines[1])
            playerIndex == SetMin({i \in 1..Len(headers) : toLowerCase(headers[i]) = K_player})
            statHeaders == filterStatHeaders(headers, playerIndex)
            rows        == [i \in 1..(Len(file.lines) - 1) |-> CleanLine(file.lines[i + 1])]
        IN  /\ csvOut.ok
            /\ DOMAIN csvOut.performances = {rows[i][playerIndex] : i \in 1..Len(rows)}
            /\ \A i \in 1..Len(rows) :
                   csvOut.performances[rows[i][playerIndex]]
                       = RowStats(headers, statHeaders, rows[i])

C9_LowerKeys(stats) ==
    [key \in {toLowerCase(k) : k \in DOMAIN stats} |->
        stats[CHOOSE k \in DOMAIN stats : toLowerCase(k) = key]]

\* C9: the derived stats stored with a record are the derived stats of the
\* record with its keys written in lowercase, and every stat of the record is
\* classified as it is under its lowercase key.
C9_KeyCaseIndependent ==
    \A i \in 1..Len(games) :
        \A name \in DOMAIN games[i].performances :
            LET record == games[i].performances[name]
                lower  == C9_LowerKeys(record)
            IN  /\ Get(record, K_ato)   = computeAstToRatio(lower)
                /\ Get(record, K_atk)   = computeAttackEnergy(lower)
                /\ Get(record, K_def)   = computeDefenceDomination(lower)
                /\ Get(record, K_shoot) = computeShootingStar(lower)
                /\ \A key \in DOMAIN record :
                       getPerformanceLevel(key, record[key])
                           = getPerformanceLevel(toLowerCase(key), record[key])

\* the cell reads as a decimal number: a sign, digits, a fraction
C10_DecimalText(c) ==
    \E sign \in {<<>>, <<"-">>}, i, f \in 0..Len(c) :
        /\ i + f > 0
        /\ \E ds \in {<<>>, <<".">>} :
              /\ (f > 0 => ds = <<".">>)
              /\ Len(c) = Len(sign) + i + Len(ds) + f
              /\ SubSeq(c, 1, Len(sign)) = sign
              /\ AllDigits(SubSeq(c, Len(sign) + 1, Len(sign) + i))
              /\ SubSeq(c, Len(sign) + i + 1, Len(sign) + i + Len(ds)) = ds
              /\ AllDigits(SubSeq(c, Len(c) - f + 1, Len(c)))

\* C10: parseStatValue returns exactly one stat value for every cell, chosen by
\* the first rule that matches the cleaned cell: empty or "-" gives null;
\* digits-dash-digits gives {made, attempted} with both sides as integers; a
\* trailing % gives what the percent rule gives (a number or null); a string
\* that reads as a number gives that number; anything else is kept as text.
C10_ParseStatValueRules ==
    parsed # NotParsed =>
        LET c == cleanCsvValue(cell)
            dashes == {i \in 1..Len(c) : c[i] = "-"}
        IN  /\ parsed.k \in {"null", "num", "ma", "str"}
            /\ IF c = <<>> \/ c = <<"-">> THEN parsed = Null
               ELSE IF IsMadeAttemptedText(c)
                    THEN /\ parsed.k = "ma"
                         /\ \E d \in dashes :
                              /\ parsed.made = DigitsToInt(SubSeq(c, 1, d - 1))
                              /\ parsed.attempted = DigitsToInt(SubSeq(c, d + 1, Len(c)))
               ELSE IF endsWith(c, "%") THEN parsed.k \in {"null", "num"}
               ELSE IF C10_DecimalText(c)
                    THEN parsed.k = "num" /\ parsed = Number(c)
               ELSE parsed = Str(c)

C10_Witness ==
    /\ parsed = MadeAttempted(1, 10)
    /\ cell = <<"1", "-", "1", "0">>

\* the claim's own reading of the played predicate, one disjunct per test
C11_Played(stats) ==
    \E key \in DOMAIN stats :
        LET v  == stats[key]
            lk == toLowerCase(key)
        IN  \/ lk = K_min /\ v.k = "num" /\ v.n > 0
            \/ lk = K_pts /\ v.k = "num" /\ v.n > 0
            \/ lk = K_fg /\ v.k = "ma" /\ v.attempted > 0
            \/ lk \in {K_oreb, K_dreb, K_asst, K_stl, K_blk, K_foul, K_to}
                  /\ v.k = "num" /\ v.n > 0
            \/ lk = K_pm /\ v.k = "num" /\ v.n # 0

\* C11: hasValidStats is true exactly when, keys compared case-insensitively,
\* min or pts is a number above 0, or fg is a made-attempted pair with
\* attempted above 0, or one of oreb, dreb, asst, stl, blk, foul, to is a
\* number above 0, or +/- is a nonzero number; it is false for every other
\* record, the empty record and the record of absent values included.
C11_PlayedExactlyWhen ==
    played # NotComputed => (played.b <=> C11_Played(boxScore))

C11_Witness ==
    /\ played = Bool(TRUE)
    /\ boxScore = Put(Put(EmptyMap, K_pm, IntV(-3)), <<"M", "I", "N">>, IntV(0))

\* x / y for decimals x >= 0 and y > 0, rounded half-up to d decimals, in exact
\* arithmetic: floor(x / y * 10^d + 1/2) / 10^d
HalfUp(x, y, d) ==
    LET p == x.n * Pow10(y.e)
        q == y.n * Pow10(x.e)
    IN  Num((2 * p * Pow10(d) + q) \div (2 * q), d)

\* a stat taken as 0 when it is absent or not a number
CountOrZero(stats, key) ==
    IF key \in DOMAIN stats /\ stats[key].k = "num" THEN stats[key] ELSE IntV(0)

\* the attempts of a made-attempted stat, 0 for any other value
AttemptsOrZero(stats, key) ==
    IF key \in DOMAIN stats /\ stats[key].k = "ma"
    THEN IntV(stats[key].attempted) ELSE IntV(0)

\* the sum of whole numbers
RECURSIVE IntSum(_)
IntSum(xs) == IF xs = <<>> THEN 0 ELSE xs[1].n + IntSum(Tail(xs))

WholeNumbers(xs) == \A i \in 1..Len(xs) : xs[i].e = 0 /\ xs[i].n >= 0

\* C12: with assists and turnovers taken as 0 when absent or non-numeric,
\* computeAstToRatio returns Absent when both are 0, the assists rounded to 2
\* decimals when turnovers are 0 and assists are above 0, and otherwise
\* assists / turnovers rounded half-up to 2 decimals.
C12_AstToRatio ==
    computed # NotComputed =>
        LET assists   == CountOrZero(boxScore, K_asst)
            turnovers == CountOrZero(boxScore, K_to)
        IN  WholeNumbers(<<assists, turnovers>>) =>
                computed[K_ato] =
                    (IF assists.n = 0 /\ turnovers.n = 0 THEN Null
                     ELSE IF turnovers.n = 0 THEN HalfUp(assists, IntV(1), 2)
                     ELSE HalfUp(assists, turnovers, 2))

\* C13: computeAttackEnergy returns Absent when min is absent, non-numeric or
\* not above 0; otherwise rawTotal is FG attempted + FT attempted + assists +
\* offensive rebounds, the result is Absent when rawTotal is 0 and
\* rawTotal / minutes rounded half-up to 2 decimals when it is above 0.
C13_AttackEnergy ==
    computed # NotComputed =>
        LET minutes  == CountOrZero(boxScore, K_min)
            parts    == <<AttemptsOrZero(boxScore, K_fg), AttemptsOrZero(boxScore, K_ft),
                          CountOrZero(boxScore, K_asst), CountOrZero(boxScore, K_oreb)>>
            rawTotal == IntSum(parts)
        IN  WholeNumbers(parts \o <<minutes>>) =>
                computed[K_atk] =
                    (IF minutes.n = 0 \/ rawTotal = 0 THEN Null
                     ELSE HalfUp(IntV(rawTotal), minutes, 2))

\* the multiplier the claim gives for a number of fouls, times 100
C14_Multiplier(fouls) ==
    IF fouls = 3 THEN 125 ELSE IF fouls = 2 THEN 100 ELSE IF fouls = 4 THEN 85 ELSE 70

\* C14: computeDefenceDomination returns Absent when min is not a number above
\* 0 or when blocks + steals + defensive rebounds is 0; otherwise that sum
\* times the foul multiplier, divided by the minutes, rounded half-up to 2
\* decimals, with multiplier 1.25 for 3 fouls, 1.0 for 2, 0.85 for 4 and 0.7
\* for every other number of fouls, an absent one included.
C14_DefenceDomination ==
    computed # NotComputed =>
        LET minutes    == CountOrZero(boxScore, K_min)
            parts      == <<CountOrZero(boxScore, K_blk), CountOrZero(boxScore, K_stl),
                            CountOrZero(boxScore, K_dreb)>>
            fouls      == CountOrZero(boxScore, K_foul)
            rawDefence == IntSum(parts)
        IN  WholeNumbers(parts \o <<minutes, fouls>>) =>
                computed[K_def] =
                    (IF minutes.n = 0 \/ rawDefence = 0 THEN Null
                     ELSE HalfUp(Num(rawDefence * C14_Multiplier(fouls.n), 2), minutes, 2))

\* the percentages that count: those of the three keys that are numbers above 0
C15_Counted(stats) ==
    {key \in {K_fgPct, K_3ptPct, K_ftPct} \cap DOMAIN stats :
        stats[key].k = "num" /\ stats[key].n > 0}

\* the sum of the counted percentages, in tenths
RECURSIVE C15_Tenths(_, _)
C15_Tenths(stats, keys) ==
    IF keys = {} THEN 0
    ELSE LET key == CHOOSE k \in keys : TRUE
         IN  stats[key].n * Pow10(1 - stats[key].e) + C15_Tenths(stats, keys \ {key})

C16_RecomputeIdempotent ==
    [][(recomputed # <<>> /\ recomputed' # <<>>) =>
          /\ games' = games
          /\ players' = players
          /\ recomputed'[Len(recomputed')].op = "add" =>
                 ~recomputed'[Len(recomputed')].updated
      ]_vars

\* two runs of addComputedStatsToAllGames in a row over two games, the first of
\* which brought a stale a/to of an edited record up to date
C16_Witness ==
    /\ Len(recomputed) = 2
    /\ recomputed[1].op = "add" /\ recomputed[1].updated
    /\ recomputed[2].op = "add" /\ ~recomputed[2].updated
    /\ Len(games) = 2
    /\ NameA \in DOMAIN games[1].performances
    /\ Get(games[1].performances[NameA], K_asst) = IntV(6)
    /\ Get(games[1].performances[NameA], K_ato) = IntV(3)

-----------------------------------------------------------------------------
(* The windowed statistics, stated over whole numbers: the valid values of  *)
(* a series, its two windows by position, and the statistics of a window    *)
(* by counting.                                                             *)

\* the value a record contributes, if it is one with data for the stat
C17_Valid(v) == v # Null /\ (v.k = "ma" => v.attempted > 0)

C17_Value(v) == IF v.k = "ma" THEN v.made ELSE v.n

RECURSIVE C17_ValidValues(_)
C17_ValidValues(records) ==
    IF records = <<>> THEN <<>>
    ELSE (IF C17_Valid(Head(records)) THEN <<C17_Value(Head(records))>> ELSE <<>>)
         \o C17_ValidValues(Tail(records))

C17_From(n, back) == IF n > back THEN n - back ELSE 0

\* the last w values
C17_Current(vs, w) == SubSeq(vs, C17_From(Len(vs), w) + 1, Len(vs))

\* the up to w values immediately before the last w
C17_Previous(vs, w) == SubSeq(vs, C17_From(Len(vs), 2 * w) + 1, C17_From(Len(vs), w))

C17_Holds(vs, w, out) ==
    IF vs = <<>> THEN out = Null
    ELSE /\ out # Null
         /\ out.gamesInWindow = Len(C17_Current(vs, w))
         /\ out.totalGames = Len(vs)
         /\ out.max = ToDouble(IntV(SetMax(Range(C17_Current(vs, w)))))
         /\ out.min = ToDouble(IntV(SetMin(Range(C17_Current(vs, w)))))
         /\ out.hasPrevWindow = (Len(C17_Previous(vs, w)) >= 3)
         /\ ~out.hasPrevWindow =>
                /\ out.avgTrend = DoubleZero
                /\ out.medianTrend = DoubleZero
                /\ out.varianceTrend = DoubleZero

\* C17: calculateWindowedStats returns Absent for a series with no valid value;
\* otherwise gamesInWindow and the extremes are those of the last windowSize
\* valid values, totalGames is the number of valid values, hasPrevWindow says
\* that the up to windowSize values before them are three or more, and without
\* a previous window the three trends are 0.
C17_Windows ==
    windowed # NotComputed =>
        C17_Holds(C17_ValidValues(series), windowed.windowSize, windowed.stats)

\* a series with a gap and a pair without attempts, cut into a current window
\* of three and a previous window of one
C17_Witness ==
    /\ windowed # NotComputed
    /\ windowed.windowSize = 3
    /\ series = <<IntV(4), Null, MadeAttempted(9, 10), MadeAttempted(0, 0), IntV(4),
                  MadeAttempted(9, 10)>>
    /\ windowed.stats # Null
    /\ windowed.stats.totalGames = 4
    /\ windowed.stats.gamesInWindow = 3
    /\ ~windowed.stats.hasPrevWindow

\* the k-th smallest of the values
C18_Kth(xs, k) ==
    CHOOSE v \in Range(xs) :
        /\ Cardinality({i \in 1..Len(xs) : xs[i] < v}) < k
        /\ Cardinality({i \in 1..Len(xs) : xs[i] <= v}) >= k

\* a quotient of whole numbers as the double nearest to it
C18_Ratio(n, d) == NumDiv(ToDouble(IntV(n)), ToDouble(IntV(d)))

RECURSIVE C18_Sum(_)
C18_Sum(xs) == IF xs = <<>> THEN 0 ELSE Head(xs) + C18_Sum(Tail(xs))

C18_Mean(xs) == C18_Ratio(C18_Sum(xs), Len(xs))

C18_Median(xs) ==
    IF Len(xs) % 2 = 1 THEN ToDouble(IntV(C18_Kth(xs, (Len(xs) + 1) \div 2)))
    ELSE C18_Ratio(C18_Kth(xs, Len(xs) \div 2) + C18_Kth(xs, Len(xs) \div 2 + 1), 2)

C18_Width(xs) == SetMax(Range(xs)) - SetMin(Range(xs))

C18_Holds(cur, prev, out) ==
    /\ out.average = C18_Mean(cur)
    /\ out.median = C18_Median(cur)
    /\ out.max = ToDouble(IntV(SetMax(Range(cur))))
    /\ out.min = ToDouble(IntV(SetMin(Range(cur))))
    /\ out.hasPrevWindow =>
           /\ out.avgTrend = NumSub(C18_Mean(cur), C18_Mean(prev))
           /\ out.medianTrend = NumSub(C18_Median(cur), C18_Median(prev))
           /\ out.varianceTrend = ToDouble(IntV(C18_Width(cur) - C18_Width(prev)))

\* C18: for the current window calculateWindowedStats returns the mean, the
\* median (the middle value by rank, the mean of the two middle values for an
\* even length), the largest and the smallest value; with a previous window
\* the trends are the differences of the means, of the medians and of the
\* widths max - min of the two windows.
C18_Statistics ==
    (windowed # NotComputed /\ windowed.stats # Null) =>
        C18_Holds(C17_Current(C17_ValidValues(series), windowed.windowSize),
                  C17_Previous(C17_ValidValues(series), windowed.windowSize),
                  windowed.stats)

\* windows <<4, 9, 9>> after <<9, 4, 4>>: the mean moves from 17/3 to 22/3, the
\* median from 4 to 9, the width stays
C18_Witness ==
    /\ windowed # NotComputed
    /\ windowed.windowSize = 3
    /\ series = <<MadeAttempted(9, 10), IntV(4), IntV(4), IntV(4), MadeAttempted(9, 10),
                  MadeAttempted(9, 10)>>
    /\ windowed.stats.hasPrevWindow
    /\ windowed.stats.average = C18_Ratio(22, 3)
    /\ windowed.stats.medianTrend = ToDouble(IntV(5))
    /\ windowed.stats.varianceTrend = DoubleZero

-----------------------------------------------------------------------------
(* The classifier and its table.                                            *)

\* x >= y for two decimal numbers
C19_AtLeast(x, y) == x.n * Pow10(y.e) >= y.n * Pow10(x.e)

C19_Tier(b, x) ==
    IF b.invertedScale
    THEN CASE C19_AtLeast(b.p90, x) -> "excellent"
           [] ~C19_AtLeast(b.p90, x) /\ C19_AtLeast(b.p75, x) -> "good"
           [] ~C19_AtLeast(b.p75, x) /\ ~C19_AtLeast(b.p90, x) /\ C19_AtLeast(b.p50, x)
                -> "average"
           [] ~C19_AtLeast(b.p50, x) /\ ~C19_AtLeast(b.p75, x) /\ ~C19_AtLeast(b.p90, x)
                /\ C19_AtLeast(b.p25, x) -> "below"
           [] OTHER -> "poor"
    ELSE CASE C19_AtLeast(x, b.p90) -> "excellent"
           [] ~C19_AtLeast(x, b.p90) /\ C19_AtLeast(x, b.p75) -> "good"
           [] ~C19_AtLeast(x, b.p75) /\ ~C19_AtLeast(x, b.p90) /\ C19_AtLeast(x, b.p50)
                -> "average"
           [] ~C19_AtLeast(x, b.p50) /\ ~C19_AtLeast(x, b.p75) /\ ~C19_AtLeast(x, b.p90)
                /\ C19_AtLeast(x, b.p25) -> "below"
           [] OTHER -> "poor"

C19_Holds(stats, call) ==
    IF toLowerCase(call.statKey) \notin DOMAIN stats THEN call.tier = "average"
    ELSE /\ call.value.k = "num" =>
                call.tier = C19_Tier(stats[toLowerCase(call.statKey)], call.value)
         /\ call.value.k = "ma" =>
                call.tier = C19_Tier(stats[toLowerCase(call.statKey)],
                                     IntV(call.value.made))

\* C19: a call of getPerformanceLevel with a number returns the first tier of
\* excellent, good, average, below whose threshold p90, p75, p50, p25 of the
\* key's entry the value reaches (from above for an inverted entry), poor when
\* it reaches none; a made-attempted pair counts by its made; for a key
\* without an entry the tier is average whatever the value.
C19_Classified ==
    [][level' # level => C19_Holds(referenceStats, level')]_vars

\* 3 made of 14 is good for assists (3, 5 are p75, p90): 14 would be excellent
C19_Witness ==
    /\ level # NotComputed
    /\ referenceStats = Defaults
    /\ level.statKey = <<"A", "S", "S", "T">>
    /\ level.value = MadeAttempted(3, 14)
    /\ level.tier = "good"

\* C20: no step after the module is loaded changes the benchmark table.
C20_TableReadOnly ==
    [][referenceStats' = referenceStats]_vars

\* ---------------------------------------------------------------------------
\* C23: after cleanupData every name of the player registry has a record in
\* at least one stored game, and the registry entry of every player who
\* still has a record is the entry it was before the cleanup.
C23_InSomeGame(name, gs) ==
    \E i \in 1..Len(gs) : name \in DOMAIN gs[i].performances

C23_CleanupPrunesRegistry ==
    [][CleanupData =>
         /\ \A name \in DOMAIN players' : C23_InSomeGame(name, games')
         /\ \A name \in DOMAIN players :
               C23_InSomeGame(name, games') =>
                   /\ name \in DOMAIN players'
                   /\ players'[name] = players[name]]_vars

\* One upload of two players, one record zeroed and then cleaned away: the
\* zeroed player left the registry, the other one stayed.
C23_Witness ==
    /\ nextId = 2
    /\ Len(games) = 1
    /\ DOMAIN games[1].performances = {NameB}
    /\ DOMAIN players = {NameB}


\* ---------------------------------------------------------------------------
\* C24: for a cleaned cell that ends with %, parseStatValue strips the % and
\* returns the count n only when the remainder is a valid integer; for every
\* other remainder (empty, letters, digits followed by other characters, a
\* decimal fraction, a second %) it returns null.
C24_IntegerText(t) ==
    \E sign \in {<<>>, <<"-">>} :
        /\ Len(t) > Len(sign)
        /\ SubSeq(t, 1, Len(sign)) = sign
        /\ AllDigits(SubSeq(t, Len(sign) + 1, Len(t)))

C24_PercentOfIntegerOnly ==
    parsed # NotParsed =>
        LET c == cleanCsvValue(cell)
            rest == trim(SubSeq(c, 1, Len(c) - 1))
        IN  (endsWith(c, "%") /\ ~IsMadeAttemptedText(c)) =>
                IF C24_IntegerText(rest) THEN parsed = Number(rest)
                ELSE parsed = Null


\* ---------------------------------------------------------------------------
\* C28: updateGame(gameId, updates) returns the stored game with that id with
\* the updates applied, also when the new date moves the game to another
\* place of the sorted list; for an id that is not stored nothing is returned
\* ("Game not found") and the store is left as it was.
C28_ReturnsUpdatedGame ==
    [][\A gameId \in GameIds, updates \in GameDetails :
          EditGame(gameId, updates) =>
              IF IndexOfGame(games, gameId) = 0
              THEN games' = games /\ players' = players
              ELSE /\ IndexOfGame(games', gameId) # 0
                   /\ updateGame(Data, gameId, updates).ret
                          = games'[IndexOfGame(games', gameId)]
                   /\ updateGame(Data, gameId, updates).ret.id = gameId
      ]_vars


\* ---------------------------------------------------------------------------
\* C30: for every file parseCsv accepts, performances and playersFound have
\* the same names: one entry for each distinct player name among the rows that
\* pass both row filters and the played test. When a name is on several such
\* rows, both entries are those of the last of them in file order.
C30_OneEntryPerPlayer ==
    (csvOut # NotParsed /\ csvOut.ok) =>
        LET headers     == CleanLine(file.lines[1])
            playerIndex == SetMin({i \in 1..Len(headers) : toLowerCase(headers[i]) = K_player})
            statHeaders == filterStatHeaders(headers, playerIndex)
            row(i)      == CleanLine(file.lines[i + 1])
            stats(i)    == RowStats(headers, statHeaders, row(i))
            info(i)     == extractPlayerInfo(row(i)[playerIndex])
            kept        == {i \in 1..(Len(file.lines) - 1) :
                               /\ Len(row(i)) = Len(headers)
                               /\ startsWith(row(i)[playerIndex], "#")
                               /\ hasValidStats(stats(i))}
            names       == {info(i).name : i \in kept}
            last(name)  == SetMax({i \in kept : info(i).name = name})
        IN  /\ DOMAIN csvOut.performances = names
            /\ DOMAIN csvOut.playersFound = names
            /\ \A name \in names :
                  /\ csvOut.performances[name] = stats(last(name))
                  /\ csvOut.playersFound[name] =
                         [number |-> info(last(name)).number, active |-> TRUE]

\* a parsed file with two rows of one player who played in both: the entry
\* carries the second row's number and assists
C30_Witness ==
    /\ csvOut # NotParsed
    /\ file.lines = <<HeaderLower, RowAlex, RowZero>>
    /\ csvOut.playersFound[NameA].number = IntV(0)
    /\ csvOut.performances[NameA][K_asst] = IntV(2)


\* ---------------------------------------------------------------------------
\* C29: after a JSON import in merge mode every player of the file who was
\* not registered is in the registry with the file's entry, every registered
\* player keeps the entry they had, and a game of the file is added only if
\* neither its id nor its date and opponent are those of a game stored before
\* the import.
C29_AddedFrom(game, data, stored) ==
    \E i \in 1..Len(data.games) :
        /\ AsGameData(game) = [AsGameData(data.games[i]) EXCEPT
                                   !.performances = game.performances]
        /\ \A j \in 1..Len(stored) :
              /\ stored[j].id # data.games[i].id
              /\ GameKey(stored[j]) # GameKey(data.games[i])

C29_MergeImport ==
    [][\A data \in ImportFiles :
          (Len(games) > 0 /\ ImportData(data, FALSE)) =>
              /\ \A name \in (DOMAIN data.players) \ (DOMAIN players) :
                    /\ name \in DOMAIN players'
                    /\ players'[name] = data.players[name]
              /\ \A name \in DOMAIN players :
                    /\ name \in DOMAIN players'
                    /\ players'[name] = players[name]
              /\ \A i \in 1..Len(games') :
                    (\A j \in 1..Len(games) : games'[i].id # games[j].id) =>
                        C29_AddedFrom(games'[i], data, games)
      ]_vars


\* ---------------------------------------------------------------------------
\* Helpers of the claims about the analysis: the stats the analysis looks at
\* (two valid values or more), their values, and the list a stat is in.
InsightStats ==
    {stat \in Range(getAvailableStats(playerRecords)) :
        Len(SelectSeq(StatColumn(playerRecords, stat), hasValidStatValue)) >= 2}

InsightValues(stat) ==
    NumericStats(SelectSeq(StatColumn(playerRecords, stat), hasValidStatValue))

InsightRecent(stat) ==
    LET values == InsightValues(stat)
        from   == IF Len(values) > insight.windowSize
                  THEN Len(values) - insight.windowSize + 1 ELSE 1
    IN  SubSeq(values, from, Len(values))

InsightPrevious(stat) ==
    LET values == InsightValues(stat)
        to     == Len(values) - insight.windowSize
        from   == IF to > insight.windowSize THEN to - insight.windowSize + 1 ELSE 1
    IN  SubSeq(values, from, to)

ListedTrend(stat) ==
    IF SomeStat(insight.analysis.improving, {stat}) THEN "improving"
    ELSE IF SomeStat(insight.analysis.declining, {stat}) THEN "declining"
    ELSE "consistent"

Analysed == insight # NotComputed /\ Len(playerRecords) >= 2

\* C21: the trend analyzePlayerPerformance classifies is the avgTrend that
\* calculateWindowedStats computes for the same records and window size; in
\* particular, with a previous window of fewer than three values the trend is
\* zero and the stat is listed neither as improving nor as declining.
C21_TrendIsAvgTrend ==
    Analysed =>
        \A stat \in InsightStats :
            LET w == calculateWindowedStats(StatColumn(playerRecords, stat),
                                            insight.windowSize)
            IN  /\ w # Null
                /\ ListedTrend(stat) =
                       trendDirection(w.avgTrend, IsInverted(getStatReference(stat)))
                /\ (~w.hasPrevWindow => ListedTrend(stat) = "consistent")

\* C22: the analysis never fails on sparse data: analyzePlayerPerformance
\* returns a result for every sequence of records, the insufficient-data result
\* for fewer than two, and generateRecommendation and generateAnalysisReport
\* complete on the result without raising an error.
C22_NeverFails ==
    /\ (insight # NotComputed /\ Len(playerRecords) < 2) =>
           insight.analysis = InsufficientData
    /\ (advice # NotComputed) => advice.ret # TypeError

\* C25: a stat is listed as improving exactly when its trend value is above
\* +0.2 (below -0.2 on an inverted scale) and as declining exactly when it is
\* below -0.2 (above +0.2 on an inverted scale); with a trend value from -0.2
\* to +0.2 it is in neither list, and no stat is in both.
C25_Trend(stat) ==
    NumSub(Mean(InsightRecent(stat)),
           Mean(IF InsightPrevious(stat) = <<>> THEN InsightValues(stat)
                ELSE InsightPrevious(stat)))

C25_Up(stat) == DoubleLess(ToDouble(Num(2, 1)), C25_Trend(stat))

C25_Down(stat) == DoubleLess(C25_Trend(stat), ToDouble(Num(0 - 2, 1)))

C25_TrendLists ==
    Analysed =>
        /\ \A stat \in InsightStats :
              LET inverted == getStatReference(stat) # Null
                              /\ getStatReference(stat).invertedScale
              IN  /\ SomeStat(insight.analysis.improving, {stat})
                        <=> IF inverted THEN C25_Down(stat) ELSE C25_Up(stat)
                  /\ SomeStat(insight.analysis.declining, {stat})
                        <=> IF inverted THEN C25_Up(stat) ELSE C25_Down(stat)
        /\ \A i \in 1..Len(insight.analysis.improving) :
              /\ insight.analysis.improving[i].stat \in InsightStats
              /\ ~SomeStat(insight.analysis.declining,
                           {insight.analysis.improving[i].stat})
        /\ \A i \in 1..Len(insight.analysis.declining) :
              insight.analysis.declining[i].stat \in InsightStats

\* turnovers fell and assists rose: both stats are listed as improving
C25_Witness ==
    /\ Analysed
    /\ SomeStat(insight.analysis.improving, {K_to})
    /\ SomeStat(insight.analysis.improving, {K_asst})

\* C26: a hot streak is recorded for a stat exactly when its current window
\* has three values or more and each of the last three is classified excellent
\* or good, a cold streak exactly when each of the last three is classified
\* poor or below; otherwise neither is recorded, and never both.
C26_LastThree(stat, levels) ==
    LET recent == InsightRecent(stat)
    IN  /\ Len(recent) >= 3
        /\ \A i \in (Len(recent) - 2)..Len(recent) :
              getPerformanceLevel(stat, recent[i]) \in levels

C26_Streaks ==
    Analysed =>
        /\ \A stat \in InsightStats :
              /\ SomeStat(insight.analysis.hotStreaks, {stat})
                    <=> C26_LastThree(stat, {"excellent", "good"})
              /\ SomeStat(insight.analysis.coldStreaks, {stat})
                    <=> C26_LastThree(stat, {"poor", "below"})
              /\ ~(/\ SomeStat(insight.analysis.hotStreaks, {stat})
                    /\ SomeStat(insight.analysis.coldStreaks, {stat}))
        /\ \A i \in 1..Len(insight.analysis.hotStreaks) :
              insight.analysis.hotStreaks[i].stat \in InsightStats
        /\ \A i \in 1..Len(insight.analysis.coldStreaks) :
              insight.analysis.coldStreaks[i].stat \in InsightStats

\* three games of two assists and five turnovers in a window of three:
\* turnovers are on a cold streak, assists on none
C26_Witness ==
    /\ Analysed
    /\ playerRecords = <<RecordMid, RecordMid, RecordMid>>
    /\ SomeStat(insight.analysis.coldStreaks, {K_to})
    /\ ~SomeStat(insight.analysis.coldStreaks, {K_asst})
    /\ ~SomeStat(insight.analysis.hotStreaks, {K_asst})

\* C27: generateRecommendation returns the text of the first rule that
\* matches, in this order: a cold streak on fg% or 3pt%; turnovers declining
\* or a weakness; a/to declining; ft% a weakness; dreb a weakness; two or more
\* improving and none declining; two or more hot streaks; a strength and a
\* weakness; and no recommendation when none matches.
C27_Rules(a) ==
    << SomeStat(a.coldStreaks, {K_fgPct, K_3ptPct}),
       SomeStat(a.declining, {K_to}) \/ SomeStat(a.weaknesses, {K_to}),
       SomeStat(a.declining, {K_ato}),
       SomeStat(a.weaknesses, {K_ftPct}),
       SomeStat(a.weaknesses, {K_dreb}),
       Len(a.improving) >= 2 /\ Len(a.declining) = 0,
       Len(a.hotStreaks) >= 2,
       Len(a.strengths) > 0 /\ Len(a.weaknesses) > 0 >>

C27_Texts ==
    << "Shooting is cold. Focus on high-percentage shots closer to the basket.",
       "Work on ball security. Look for safer passing lanes and avoid forcing plays.",
       "Assist-to-turnover ratio declining. Focus on smart decision-making with the ball.",
       "Free throw practice can add easy points. Aim for 10+ FTs daily.",
       "Box out on defensive rebounds. Position yourself between opponent and basket.",
       "Great progress! Maintain this momentum and keep pushing.",
       "Playing with confidence! Stay aggressive and trust your game.",
       "Build on your ... strength while developing weaker areas." >>

C27_FirstMatch(rules) ==
    IF \E i \in 1..Len(rules) : rules[i]
    THEN CHOOSE i \in 1..Len(rules) : rules[i] /\ \A j \in 1..(i - 1) : ~rules[j]
    ELSE 0

C27_FirstRuleWins ==
    (advice # NotComputed /\ advice.of = "generateRecommendation") =>
        LET first == C27_FirstMatch(C27_Rules(insight.analysis))
        IN  IF first = 0 THEN advice.ret = Null
            ELSE /\ advice.ret # Null
                 /\ advice.ret.text = C27_Texts[first]

\* turnovers and free throws are both weaknesses: the turnover rule, which
\* comes first, gives the text
C27_Witness ==
    /\ advice # NotComputed
    /\ advice.of = "generateRecommendation"
    /\ SomeStat(insight.analysis.weaknesses, {K_to})
    /\ SomeStat(insight.analysis.weaknesses, {K_ftPct})
    /\ advice.ret = Recommendation(C27_Texts[2])


=============================================================================
